---- MODULE Spec2Model ----
(***************************************************************************)
(* Terra Invicta propulsion and power planner: the dominance /             *)
(* obsolescence engine, the drive + power plant combination builder and    *)
(* the part of main() that chains them on every rerun of the app.          *)
(*                                                                         *)
(* Numbers of the source are Python floats.  They are modelled as exact    *)
(* values: table fields that the loader supplies are integers, derived     *)
(* quantities are exact rationals <<numerator, denominator>> in lowest     *)
(* terms (denominator > 0), and +inf is the value Inf.                     *)
(***************************************************************************)
EXTENDS Integers, Sequences, FiniteSets, TLC

(***************************************************************************)
(* Bounds of the model.                                                    *)
(***************************************************************************)
\* thrust (in MN) and reactor output (in GW) range over 0..MaxVal
MaxVal == 1

Vals == 0..MaxVal

\* the two levels of a field that is only compared between two rows: they
\* give every outcome (<, =, >) of a pairwise comparison
Levels == {0, 1}

\* thrust is stored in newtons; catalog thrusts are multiples of 1 MN so
\* that drive power (thrust * EV / 2,000,000 GW) is comparable to reactor
\* outputs of a few GW.  Thrust and reactor output range over 0..MaxVal,
\* the other numeric fields over Levels.
ThrustUnit == 1000 * 1000

ThrustVals == {k * ThrustUnit : k \in Vals}

\* the thrusts of the rows after the first of a selection
TwoThrusts == {k * ThrustUnit : k \in Levels}

(***************************************************************************)
(* Exact rational arithmetic for the derived float quantities.             *)
(***************************************************************************)
RECURSIVE GCD(_, _)
GCD(a, b) == IF b = 0 THEN a ELSE GCD(b, a % b)

Abs(x) == IF x < 0 THEN -x ELSE x

\* n / d for d # 0, in lowest terms with a positive denominator
Rat(n, d) ==
    LET g == GCD(Abs(n), Abs(d))
        s == IF d < 0 THEN -1 ELSE 1
    IN  <<s * (n \div g), s * (d \div g)>>

RInt(n) == <<n, 1>>

RAdd(x, y) == Rat(x[1] * y[2] + y[1] * x[2], x[2] * y[2])

RMul(x, y) == Rat(x[1] * y[1], x[2] * y[2])

RDiv(x, y) == Rat(x[1] * y[2], x[2] * y[1])

\* x <= y and x < y by cross-multiplication, the common factors of the two
\* numerators and of the two denominators taken out first
CommonFactor(a, b) == IF a = 0 /\ b = 0 THEN 1 ELSE GCD(Abs(a), Abs(b))

RLe(x, y) ==
    LET gn == CommonFactor(x[1], y[1])
        gd == CommonFactor(x[2], y[2])
    IN  (x[1] \div gn) * (y[2] \div gd) <= (y[1] \div gn) * (x[2] \div gd)

RLt(x, y) ==
    LET gn == CommonFactor(x[1], y[1])
        gd == CommonFactor(x[2], y[2])
    IN  (x[1] \div gn) * (y[2] \div gd) < (y[1] \div gn) * (x[2] \div gd)

\* mutant of RMin: the first of the two, whatever the second
RMin_First(x, y) == x

\* mutant of RMin: the larger of the two
RMin_Larger(x, y) == IF RLe(x, y) THEN y ELSE x

RMin(x, y) == IF RLe(x, y) THEN x ELSE y

(***************************************************************************)
(* Feature engineering                                                     *)
(***************************************************************************)
\* raw backup modes of the game data
BACKUP_MODE_RAW_VALUES == {"Always", "DriveIdle", "DriveActive", "Never"}

\* mutant of has_idle_backup: backup while the drive idles is not counted
has_idle_backup_OnlyAlways(raw) == raw = "Always"

has_idle_backup(raw) == raw \in {"Always", "DriveIdle"}

interpret_backup(raw) ==
    IF raw = "Always" THEN "Always"
    ELSE IF raw = "DriveIdle" THEN "When Not Thrusting"
    ELSE IF raw = "DriveActive" THEN "When Thrusting"
    ELSE "Never"

\* thrust_n * ev_kps / 2_000_000.0
\* mutant of compute_drive_power_gw: the power comes out a thousand times larger
compute_drive_power_gw_Megawatts(thrust_n, ev_kps) == Rat(thrust_n * ev_kps, 2000)

compute_drive_power_gw(thrust_n, ev_kps) == Rat(thrust_n * ev_kps, 2000000)

(***************************************************************************)
(* Drive dominance                                                         *)
(***************************************************************************)
\* mutant of dominates_drive: the scarce propellant rule is missing
dominates_drive_NoScarceVeto(a, b, care_backup, ignore_intraclass) ==
    IF ignore_intraclass /\ a.FamilyName = b.FamilyName THEN FALSE
    ELSE IF care_backup /\ ~a.HasIdleBackup /\ b.HasIdleBackup THEN FALSE
    ELSE IF ~(/\ a.Thrust >= b.Thrust
              /\ a.ExhaustVelocity >= b.ExhaustVelocity
              /\ a.PowerUseEfficiency >= b.PowerUseEfficiency
              /\ a.DriveMass <= b.DriveMass) THEN FALSE
    ELSE \/ a.Thrust > b.Thrust
         \/ a.ExhaustVelocity > b.ExhaustVelocity
         \/ a.PowerUseEfficiency > b.PowerUseEfficiency
         \/ a.DriveMass < b.DriveMass
         \/ (care_backup /\ a.HasIdleBackup /\ ~b.HasIdleBackup)
         \/ (~a.UsesScarcePropellant /\ b.UsesScarcePropellant)

\* mutant of dominates_drive: no strict improvement is asked for
dominates_drive_NonStrict(a, b, care_backup, ignore_intraclass) ==
    IF ignore_intraclass /\ a.FamilyName = b.FamilyName THEN FALSE
    ELSE IF a.UsesScarcePropellant /\ ~b.UsesScarcePropellant THEN FALSE
    ELSE IF care_backup /\ ~a.HasIdleBackup /\ b.HasIdleBackup THEN FALSE
    ELSE /\ a.Thrust >= b.Thrust
         /\ a.ExhaustVelocity >= b.ExhaustVelocity
         /\ a.PowerUseEfficiency >= b.PowerUseEfficiency
         /\ a.DriveMass <= b.DriveMass

\* mutant of dominates_drive: the same-class veto is missing
dominates_drive_NoClassVeto(a, b, care_backup, ignore_intraclass) ==
    IF a.UsesScarcePropellant /\ ~b.UsesScarcePropellant THEN FALSE
    ELSE IF care_backup /\ ~a.HasIdleBackup /\ b.HasIdleBackup THEN FALSE
    ELSE IF ~(/\ a.Thrust >= b.Thrust
              /\ a.ExhaustVelocity >= b.ExhaustVelocity
              /\ a.PowerUseEfficiency >= b.PowerUseEfficiency
              /\ a.DriveMass <= b.DriveMass) THEN FALSE
    ELSE \/ a.Thrust > b.Thrust
         \/ a.ExhaustVelocity > b.ExhaustVelocity
         \/ a.PowerUseEfficiency > b.PowerUseEfficiency
         \/ a.DriveMass < b.DriveMass
         \/ (care_backup /\ a.HasIdleBackup /\ ~b.HasIdleBackup)
         \/ (~a.UsesScarcePropellant /\ b.UsesScarcePropellant)

\* mutant of dominates_drive: thrust is compared as a prefer-lower dimension
dominates_drive_PrefersLowThrust(a, b, care_backup, ignore_intraclass) ==
    IF ignore_intraclass /\ a.FamilyName = b.FamilyName THEN FALSE
    ELSE IF a.UsesScarcePropellant /\ ~b.UsesScarcePropellant THEN FALSE
    ELSE IF care_backup /\ ~a.HasIdleBackup /\ b.HasIdleBackup THEN FALSE
    ELSE IF ~(/\ a.Thrust <= b.Thrust
              /\ a.ExhaustVelocity >= b.ExhaustVelocity
              /\ a.PowerUseEfficiency >= b.PowerUseEfficiency
              /\ a.DriveMass <= b.DriveMass) THEN FALSE
    ELSE \/ a.Thrust < b.Thrust
         \/ a.ExhaustVelocity > b.ExhaustVelocity
         \/ a.PowerUseEfficiency > b.PowerUseEfficiency
         \/ a.DriveMass < b.DriveMass
         \/ (care_backup /\ a.HasIdleBackup /\ ~b.HasIdleBackup)
         \/ (~a.UsesScarcePropellant /\ b.UsesScarcePropellant)

\* mutant of dominates_drive: non-scarce over scarce fuel is no strict improvement
dominates_drive_NoScarceBonus(a, b, care_backup, ignore_intraclass) ==
    IF ignore_intraclass /\ a.FamilyName = b.FamilyName THEN FALSE
    ELSE IF a.UsesScarcePropellant /\ ~b.UsesScarcePropellant THEN FALSE
    ELSE IF care_backup /\ ~a.HasIdleBackup /\ b.HasIdleBackup THEN FALSE
    ELSE IF ~(/\ a.Thrust >= b.Thrust
              /\ a.ExhaustVelocity >= b.ExhaustVelocity
              /\ a.PowerUseEfficiency >= b.PowerUseEfficiency
              /\ a.DriveMass <= b.DriveMass) THEN FALSE
    ELSE \/ a.Thrust > b.Thrust
         \/ a.ExhaustVelocity > b.ExhaustVelocity
         \/ a.PowerUseEfficiency > b.PowerUseEfficiency
         \/ a.DriveMass < b.DriveMass
         \/ (care_backup /\ a.HasIdleBackup /\ ~b.HasIdleBackup)

dominates_drive(a, b, care_backup, ignore_intraclass) ==
    \* optionally prevent intra-family/class dominance
    IF ignore_intraclass /\ a.FamilyName = b.FamilyName THEN FALSE
    \* scarce propellant rule
    ELSE IF a.UsesScarcePropellant /\ ~b.UsesScarcePropellant THEN FALSE
    \* care_backup: a drive that lacks idle backup cannot dominate one that has it
    ELSE IF care_backup /\ ~a.HasIdleBackup /\ b.HasIdleBackup THEN FALSE
    \* all(ge_dims) and all(le_dims); the backup ge_dim appended under
    \* care_backup is int(a) >= int(b), i.e. ~(~a /\ b)
    ELSE IF ~(/\ a.Thrust >= b.Thrust
              /\ a.ExhaustVelocity >= b.ExhaustVelocity
              /\ a.PowerUseEfficiency >= b.PowerUseEfficiency
              /\ a.DriveMass <= b.DriveMass
              /\ (care_backup => (a.HasIdleBackup \/ ~b.HasIdleBackup))) THEN FALSE
    \* strict_better
    ELSE \/ a.Thrust > b.Thrust
         \/ a.ExhaustVelocity > b.ExhaustVelocity
         \/ a.PowerUseEfficiency > b.PowerUseEfficiency
         \/ a.DriveMass < b.DriveMass
         \/ (care_backup /\ a.HasIdleBackup /\ ~b.HasIdleBackup)
         \/ (~a.UsesScarcePropellant /\ b.UsesScarcePropellant)

(***************************************************************************)
(* Reactor dominance                                                       *)
(***************************************************************************)
BoolInt(x) == IF x THEN 1 ELSE 0

dominates_pp_CrewNeverStrict(a, b, care_crew) ==
    IF ~(/\ a.MaxOutput >= b.MaxOutput
         /\ a.Efficiency >= b.Efficiency
         /\ BoolInt(a.GeneralUse) >= BoolInt(b.GeneralUse)
         /\ a.SpecificPower <= b.SpecificPower
         /\ (care_crew => a.Crew <= b.Crew)) THEN FALSE
    ELSE \/ a.MaxOutput > b.MaxOutput
         \/ a.Efficiency > b.Efficiency
         \/ a.SpecificPower < b.SpecificPower
         \/ BoolInt(a.GeneralUse) > BoolInt(b.GeneralUse)

\* mutant of dominates_pp: no strict improvement is asked for
dominates_pp_NonStrict(a, b, care_crew) ==
    /\ a.MaxOutput >= b.MaxOutput
    /\ a.Efficiency >= b.Efficiency
    /\ BoolInt(a.GeneralUse) >= BoolInt(b.GeneralUse)
    /\ a.SpecificPower <= b.SpecificPower
    /\ (care_crew => a.Crew <= b.Crew)

dominates_pp(a, b, care_crew) ==
    \* all(ge_dims) and all(le_dims), crew appended to le_dims under care_crew
    IF ~(/\ a.MaxOutput >= b.MaxOutput
         /\ a.Efficiency >= b.Efficiency
         /\ BoolInt(a.GeneralUse) >= BoolInt(b.GeneralUse)
         /\ a.SpecificPower <= b.SpecificPower
         /\ (care_crew => a.Crew <= b.Crew)) THEN FALSE
    \* strict_better
    ELSE \/ a.MaxOutput > b.MaxOutput
         \/ a.Efficiency > b.Efficiency
         \/ a.SpecificPower < b.SpecificPower
         \/ BoolInt(a.GeneralUse) > BoolInt(b.GeneralUse)
         \/ (care_crew /\ a.Crew < b.Crew)

(***************************************************************************)
(* The all-pairs annotators.  The source scans i = 0..n-1 (outer) and      *)
(* j = 0..n-1 (inner); step p of the scan handles i = p \div n + 1 and     *)
(* j = p % n + 1 and updates the three tallies.                            *)
(***************************************************************************)
\* obsolete_flags, dominated_by and dominates_count before the scan
EmptyTally(n) ==
    [obsolete_flags  |-> [k \in 1..n |-> FALSE],
     dominated_by    |-> [k \in 1..n |-> <<>>],
     dominates_count |-> [k \in 1..n |-> 0]]

\* mutant of Tally: the count goes to the dominated row instead of the dominator
Tally_CountsDominated(acc, i, j, name_j) ==
    [obsolete_flags  |-> [acc.obsolete_flags EXCEPT ![i] = TRUE],
     dominated_by    |-> [acc.dominated_by EXCEPT ![i] = Append(@, name_j)],
     dominates_count |-> [acc.dominates_count EXCEPT ![i] = @ + 1]]

\* the body of the inner loop when row j dominates row i
Tally(acc, i, j, name_j) ==
    [obsolete_flags  |-> [acc.obsolete_flags EXCEPT ![i] = TRUE],
     dominated_by    |-> [acc.dominated_by EXCEPT ![i] = Append(@, name_j)],
     dominates_count |-> [acc.dominates_count EXCEPT ![j] = @ + 1]]

\* Domination Efficiency = count * 1000 / cost, None without count or cost
domination_efficiency(count, cost) ==
    IF count > 0 /\ cost # 0 THEN <<"some", Rat(count * 1000, cost)>> ELSE <<"None">>

RECURSIVE drive_scan(_, _, _, _, _)
drive_scan(feat_df, care_backup, ignore_intraclass, p, acc) ==
    LET n == Len(feat_df)
        i == (p \div n) + 1
        j == (p % n) + 1
    IN  IF p >= n * n THEN acc
        ELSE drive_scan(feat_df, care_backup, ignore_intraclass, p + 1,
                 IF i # j /\ dominates_drive(feat_df[j], feat_df[i],
                                             care_backup, ignore_intraclass)
                 THEN Tally(acc, i, j, feat_df[j].Name)
                 ELSE acc)

annotate_drive_obsolescence(feat_df, care_backup, ignore_intraclass) ==
    LET n   == Len(feat_df)
        acc == drive_scan(feat_df, care_backup, ignore_intraclass, 0, EmptyTally(n))
    IN  [k \in 1..n |->
            \* out = feat_df.copy() with the new columns
            [Name                    |-> feat_df[k].Name,
             FamilyName              |-> feat_df[k].FamilyName,
             Thrust                  |-> feat_df[k].Thrust,
             CombatThrustMultiplier  |-> feat_df[k].CombatThrustMultiplier,
             ExhaustVelocity         |-> feat_df[k].ExhaustVelocity,
             PowerUseEfficiency      |-> feat_df[k].PowerUseEfficiency,
             DriveMass               |-> feat_df[k].DriveMass,
             ApproxDrivePower        |-> feat_df[k].ApproxDrivePower,
             BackupPowerMode         |-> feat_df[k].BackupPowerMode,
             HasIdleBackup           |-> feat_df[k].HasIdleBackup,
             UsesScarcePropellant    |-> feat_df[k].UsesScarcePropellant,
             RequiredPowerPlant      |-> feat_df[k].RequiredPowerPlant,
             ExpensiveFuelScore      |-> feat_df[k].ExpensiveFuelScore,
             UnlockTotalResearchCost |-> feat_df[k].UnlockTotalResearchCost,
             Obsolete                |-> acc.obsolete_flags[k],
             DominatesCount          |-> acc.dominates_count[k],
             DominatedBy             |-> acc.dominated_by[k],
             DominationEfficiency    |->
                 domination_efficiency(acc.dominates_count[k],
                                       feat_df[k].UnlockTotalResearchCost)]]

RECURSIVE pp_scan(_, _, _, _)
pp_scan(feat_df, care_crew, p, acc) ==
    LET n == Len(feat_df)
        i == (p \div n) + 1
        j == (p % n) + 1
    IN  IF p >= n * n THEN acc
        ELSE pp_scan(feat_df, care_crew, p + 1,
                 IF i # j /\ dominates_pp(feat_df[j], feat_df[i], care_crew)
                 THEN Tally(acc, i, j, feat_df[j].Name)
                 ELSE acc)

annotate_pp_obsolescence(feat_df, care_crew) ==
    LET n   == Len(feat_df)
        acc == pp_scan(feat_df, care_crew, 0, EmptyTally(n))
    IN  [k \in 1..n |->
            \* out = feat_df.copy() with the new columns
            [Name                    |-> feat_df[k].Name,
             Class                   |-> feat_df[k].Class,
             MaxOutput               |-> feat_df[k].MaxOutput,
             SpecificPower           |-> feat_df[k].SpecificPower,
             Efficiency              |-> feat_df[k].Efficiency,
             Crew                    |-> feat_df[k].Crew,
             GeneralUse              |-> feat_df[k].GeneralUse,
             UnlockTotalResearchCost |-> feat_df[k].UnlockTotalResearchCost,
             Obsolete                |-> acc.obsolete_flags[k],
             DominatesCount          |-> acc.dominates_count[k],
             DominatedBy             |-> acc.dominated_by[k],
             DominationEfficiency    |->
                 domination_efficiency(acc.dominates_count[k],
                                       feat_df[k].UnlockTotalResearchCost)]]

(***************************************************************************)
(* Drive + power plant compatibility.  A class tag is a string, modelled   *)
(* as the sequence of its characters.                                      *)
(***************************************************************************)
UpperChars == <<"A","B","C","D","E","F","G","H","I","J","K","L","M",
                "N","O","P","Q","R","S","T","U","V","W","X","Y","Z">>

LowerChars == <<"a","b","c","d","e","f","g","h","i","j","k","l","m",
                "n","o","p","q","r","s","t","u","v","w","x","y","z">>

LowerOf == [c \in {UpperChars[k] : k \in DOMAIN UpperChars} |->
               LowerChars[CHOOSE k \in DOMAIN UpperChars : UpperChars[k] = c]]

\* str.lower() on one character
LowerChar(c) == IF c \in DOMAIN LowerOf THEN LowerOf[c] ELSE c

\* str.strip(): drop leading and trailing whitespace
RECURSIVE LStrip(_)
LStrip(s) == IF s # <<>> /\ Head(s) = " " THEN LStrip(Tail(s)) ELSE s

RECURSIVE RStrip(_)
RStrip(s) ==
    IF s # <<>> /\ s[Len(s)] = " " THEN RStrip(SubSeq(s, 1, Len(s) - 1)) ELSE s

Strip(s) == RStrip(LStrip(s))

\* re.sub(r"_+", "_", s): every run of underscores becomes one underscore
RECURSIVE CollapseUnderscores(_)
CollapseUnderscores(s) ==
    IF Len(s) < 2 THEN s
    ELSE IF s[1] = "_" /\ s[2] = "_" THEN CollapseUnderscores(Tail(s))
    ELSE <<s[1]>> \o CollapseUnderscores(Tail(s))

_normalize_class_name(s) ==
    LET t == Strip(s)
    IN  IF t = <<>> THEN <<>>
        ELSE LET u == [k \in 1..Len(t) |-> IF t[k] = " " THEN "_" ELSE t[k]]
                 v == CollapseUnderscores(u)
             IN  [k \in 1..Len(v) |-> LowerChar(v[k])]

\* str.startswith
StartsWith(s, prefix) ==
    Len(s) >= Len(prefix) /\ SubSeq(s, 1, Len(prefix)) = prefix

\* needle in haystack (substring test; the empty string is in every string)
IsSubstring(needle, hay) ==
    \E start \in 1..(Len(hay) - Len(needle) + 1) :
        SubSeq(hay, start, start + Len(needle) - 1) = needle

STR_any == <<"a","n","y">>

STR_any_ == <<"a","n","y","_">>

STR_any_general == <<"a","n","y","_","g","e","n","e","r","a","l">>

STR_any_reactor == <<"a","n","y","_","r","e","a","c","t","o","r">>

STR_any_power_plant == <<"a","n","y","_","p","o","w","e","r","_","p","l","a","n","t">>

\* mutant of drive_compatible_with_pp: an "any_" requirement matches every class
drive_compatible_with_pp_AnyPrefixMatchesAll(drive_row, pp_row) ==
    LET req   == _normalize_class_name(drive_row.RequiredPowerPlant)
        plant == _normalize_class_name(pp_row.Class)
    IN  IF req = <<>> THEN TRUE
        ELSE IF plant = <<>> THEN FALSE
        ELSE IF StartsWith(req, STR_any) THEN TRUE
        ELSE req = plant \/ IsSubstring(req, plant)

\* mutant of drive_compatible_with_pp: the empty class is not turned away
drive_compatible_with_pp_NoEmptyClassCheck(drive_row, pp_row) ==
    LET req   == _normalize_class_name(drive_row.RequiredPowerPlant)
        plant == _normalize_class_name(pp_row.Class)
    IN  IF req = <<>> THEN TRUE
        ELSE IF req \in {STR_any, STR_any_general, STR_any_reactor, STR_any_power_plant}
        THEN TRUE
        ELSE IF StartsWith(req, STR_any_)
        THEN LET needed == SubSeq(req, Len(STR_any_) + 1, Len(req))
             IN  IF needed = <<>> THEN TRUE
                 ELSE needed = plant \/ IsSubstring(needed, plant)
        ELSE req = plant \/ IsSubstring(req, plant)

drive_compatible_with_pp(drive_row, pp_row) ==
    LET req   == _normalize_class_name(drive_row.RequiredPowerPlant)
        plant == _normalize_class_name(pp_row.Class)
    IN  IF req = <<>> THEN TRUE
        ELSE IF req \in {STR_any, STR_any_general, STR_any_reactor, STR_any_power_plant}
        THEN TRUE
        ELSE IF plant = <<>> THEN FALSE
        ELSE IF StartsWith(req, STR_any_)
        THEN LET needed == SubSeq(req, Len(STR_any_) + 1, Len(req))
             IN  IF needed = <<>> THEN TRUE
                 ELSE needed = plant \/ IsSubstring(needed, plant)
        ELSE req = plant \/ IsSubstring(req, plant)

(***************************************************************************)
(* Combos.  float("inf") is the value Inf = <<1, 0>>, which RLe and RLt    *)
(* order above every rational.  A delta-v ev * ln(wet / dry) is kept as    *)
(* the pair [ev, ratio]; two of them are compared exactly through          *)
(* ev1 * ln(r1) <= ev2 * ln(r2)  <=>  r1^ev1 <= r2^ev2.                    *)
(***************************************************************************)
Inf == <<1, 0>>

RZero == <<0, 1>>

RECURSIVE RPow(_, _)
RPow(x, k) == IF k = 0 THEN <<1, 1>> ELSE RMul(x, RPow(x, k - 1))

\* the delta-v value 0.0
DvZero == [ev |-> 0, ratio |-> <<1, 1>>]

DvLe(x, y) == RLe(RPow(x.ratio, x.ev), RPow(y.ratio, y.ev))

DvLt(x, y) == RLt(RPow(x.ratio, x.ev), RPow(y.ratio, y.ev))

\* wet_mass * 1000.0 * 9.81
GravityDenominator(wet_mass) == RMul(wet_mass, RInt(9810))

\* the row appended for one compatible (drive, plant) pair that is not dropped
combo_row(d, p, ref_payload_tons, ref_propellant_tons) ==
    LET thrust        == d.Thrust
        thrust_cap    == d.CombatThrustMultiplier
        ev_kps        == d.ExhaustVelocity
        drive_mass    == d.DriveMass
        drive_power   == d.ApproxDrivePower
        fuel_score    == d.ExpensiveFuelScore
        pp_max_output == RInt(p.MaxOutput)
        pp_spec       == RInt(p.SpecificPower)
        power_ratio   == IF RLt(RZero, drive_power)
                         THEN RDiv(pp_max_output, drive_power)
                         ELSE IF RLt(RZero, pp_max_output) THEN Inf ELSE RZero
        enough_power  == IF RLt(RZero, drive_power)
                         THEN RLe(drive_power, pp_max_output)
                         ELSE TRUE
        pp_output_used == IF RLt(RZero, drive_power)
                          THEN RMin(drive_power, pp_max_output)
                          ELSE RZero
        reactor_mass  == RMul(pp_output_used, pp_spec)
        dry_mass      == RAdd(RAdd(RInt(ref_payload_tons), RInt(drive_mass)), reactor_mass)
        wet_mass      == RAdd(dry_mass, RInt(ref_propellant_tons))
        delta_v_kps   == IF ev_kps > 0 /\ RLt(dry_mass, wet_mass) /\ RLt(RZero, dry_mass)
                         THEN [ev |-> ev_kps, ratio |-> RDiv(wet_mass, dry_mass)]
                         ELSE DvZero
        accel_cruise_g == IF RLt(RZero, wet_mass)
                          THEN RDiv(RInt(thrust), GravityDenominator(wet_mass))
                          ELSE RZero
        accel_combat_g == IF RLt(RZero, wet_mass)
                          THEN RDiv(RInt(thrust * thrust_cap), GravityDenominator(wet_mass))
                          ELSE RZero
    IN  [Drive                       |-> d.Name,
         DriveThrust                 |-> thrust,
         DriveCombatThrustMultiplier |-> thrust_cap,
         DriveEV                     |-> ev_kps,
         DrivePower                  |-> drive_power,
         DriveMass                   |-> drive_mass,
         DriveExpensiveFuelScore     |-> fuel_score,
         RequiresPowerPlantClass     |-> d.RequiredPowerPlant,
         PowerPlant                  |-> p.Name,
         PowerPlantClass             |-> p.Class,
         PPMaxOutput                 |-> pp_max_output,
         PPSpecificPower             |-> pp_spec,
         PPOutputUsed                |-> pp_output_used,
         PPReactorMass               |-> reactor_mass,
         RefPayloadMass              |-> ref_payload_tons,
         RefPropellantMass           |-> ref_propellant_tons,
         RefDryMass                  |-> dry_mass,
         RefWetMass                  |-> wet_mass,
         TotalWetMass                |-> wet_mass,
         RefDeltaV                   |-> delta_v_kps,
         RefCruiseAccel              |-> accel_cruise_g,
         RefCombatAccel              |-> accel_combat_g,
         PowerRatio                  |-> power_ratio,
         ReactorEnoughPower          |-> enough_power]

\* mutant of NonObsolete: the obsolete rows stay in
NonObsolete_KeepAll(df) == df

\* the rows of a table that are not flagged obsolete: df[~df["Obsolete"]]
NonObsolete(df) == SelectSeq(df, LAMBDA r : ~r.Obsolete)

\* mutant of ZeroOutputDrop: no pair is dropped
ZeroOutputDrop_Never(d, p) == FALSE

\* mutant of ZeroOutputDrop: every under-powered pair is dropped
ZeroOutputDrop_Underpowered(d, p) == RLt(RInt(p.MaxOutput), d.ApproxDrivePower)

\* the pair is dropped: zero-output reactor, drive that draws power
ZeroOutputDrop(d, p) == p.MaxOutput <= 0 /\ RLt(RZero, d.ApproxDrivePower)

\* the inner loop over valid_plants for one drive d, from plant index k on
RECURSIVE combos_of_drive(_, _, _, _, _)
combos_of_drive(d, valid_plants, k, ref_payload_tons, ref_propellant_tons) ==
    IF k > Len(valid_plants) THEN <<>>
    ELSE LET p    == valid_plants[k]
             rest == combos_of_drive(d, valid_plants, k + 1,
                                     ref_payload_tons, ref_propellant_tons)
         IN  IF ~drive_compatible_with_pp(d, p) THEN rest
             ELSE IF ZeroOutputDrop(d, p) THEN rest
             ELSE <<combo_row(d, p, ref_payload_tons, ref_propellant_tons)>> \o rest

\* the outer loop over valid_drives, from drive index k on
RECURSIVE combos_from(_, _, _, _, _)
combos_from(valid_drives, valid_plants, k, ref_payload_tons, ref_propellant_tons) ==
    IF k > Len(valid_drives) THEN <<>>
    ELSE combos_of_drive(valid_drives[k], valid_plants, 1,
                         ref_payload_tons, ref_propellant_tons)
         \o combos_from(valid_drives, valid_plants, k + 1,
                        ref_payload_tons, ref_propellant_tons)

build_valid_drive_pp_combos(drive_feat, pp_feat, ref_payload_tons, ref_propellant_tons) ==
    LET valid_drives == NonObsolete(drive_feat)
        valid_plants == NonObsolete(pp_feat)
    IN  IF valid_drives = <<>> \/ valid_plants = <<>> THEN <<>>
        ELSE combos_from(valid_drives, valid_plants, 1,
                         ref_payload_tons, ref_propellant_tons)

combo_dominates(a, b) ==
    IF ~(/\ DvLe(b.RefDeltaV, a.RefDeltaV)
         /\ RLe(b.RefCruiseAccel, a.RefCruiseAccel)
         /\ RLe(b.RefCombatAccel, a.RefCombatAccel)
         /\ RLe(b.PowerRatio, a.PowerRatio)
         /\ a.DriveExpensiveFuelScore <= b.DriveExpensiveFuelScore) THEN FALSE
    ELSE \/ DvLt(b.RefDeltaV, a.RefDeltaV)
         \/ RLt(b.RefCruiseAccel, a.RefCruiseAccel)
         \/ RLt(b.RefCombatAccel, a.RefCombatAccel)
         \/ RLt(b.PowerRatio, a.PowerRatio)
         \/ a.DriveExpensiveFuelScore < b.DriveExpensiveFuelScore

\* the combo scan keeps no dominates-count: only the flag and the dominators
RECURSIVE combo_scan(_, _, _)
combo_scan(combos_df, p, acc) ==
    LET n == Len(combos_df)
        i == (p \div n) + 1
        j == (p % n) + 1
    IN  IF p >= n * n THEN acc
        ELSE combo_scan(combos_df, p + 1,
                 IF i # j /\ combo_dominates(combos_df[j], combos_df[i])
                 THEN [obsolete_flags |-> [acc.obsolete_flags EXCEPT ![i] = TRUE],
                       dominated_by   |-> [acc.dominated_by EXCEPT ![i] =
                            Append(@, <<combos_df[j].Drive, combos_df[j].PowerPlant>>)]]
                 ELSE acc)

annotate_combo_obsolescence(combos_df) ==
    LET n   == Len(combos_df)
        acc == combo_scan(combos_df, 0,
                   [obsolete_flags |-> [k \in 1..n |-> FALSE],
                    dominated_by   |-> [k \in 1..n |-> <<>>]])
    IN  [k \in 1..n |->
            \* out = combos_df.copy() with the two new columns
            [c \in DOMAIN combos_df[k] \cup {"ComboObsolete", "ComboDominatedBy"} |->
                IF c = "ComboObsolete" THEN acc.obsolete_flags[k]
                ELSE IF c = "ComboDominatedBy" THEN acc.dominated_by[k]
                ELSE combos_df[k][c]]]

(***************************************************************************)
(* Mission feasibility search.  The target delta-v is counted in units of  *)
(* ln 2 km/s, so that math.exp(dv / ev) is the exact power of two          *)
(* 2^(dv / ev) whenever ev divides dv; the sampled targets are multiples   *)
(* of every sampled exhaust velocity.  An exception of the source is the   *)
(* outcome "raise".                                                        *)
(***************************************************************************)
RSub(x, y) == Rat(x[1] * y[2] - y[1] * x[2], x[2] * y[2])

\* math.exp(k * ln 2), with OverflowError replaced by inf: the largest
\* finite double lies just below 2^1024
Exp2(k) ==
    IF k > 1024 THEN Inf
    ELSE IF k < 0 THEN Rat(1, 2 ^ (0 - k))
    ELSE RInt(2 ^ k)

STR_combat == <<"c","o","m","b","a","t">>

\* str(accel_type).lower().startswith("combat"); True for an empty type
use_combat(accel_type) ==
    IF accel_type = <<>> THEN TRUE
    ELSE StartsWith([k \in 1..Len(accel_type) |-> LowerChar(accel_type[k])],
                    STR_combat)

\* mutant of NonPositiveTargets: the targets are not looked at
NonPositiveTargets_Ignored(dv_target_kps, accel_target_g) == FALSE

\* the early return on a target that is not positive
NonPositiveTargets(dv_target_kps, accel_target_g) ==
    dv_target_kps <= 0 \/ RLe(accel_target_g, RZero)

\* mutant of required_propellant: the whole wet mass is taken for propellant
required_propellant_WetMass(m0, payload_sol, mass_ratio) ==
    RMul(RAdd(m0, payload_sol), mass_ratio)

\* prop_sol = (m0 + payload_sol) * (mass_ratio - 1.0)
required_propellant(m0, payload_sol, mass_ratio) ==
    RMul(RAdd(m0, payload_sol), RSub(mass_ratio, RInt(1)))

\* mutant of outside_prop_bounds: the propellant bounds are not enforced
outside_prop_bounds_Never(prop_sol, prop_min, prop_max) == FALSE

\* prop_sol < prop_min or prop_sol > prop_max
outside_prop_bounds(prop_sol, prop_min, prop_max) ==
    RLt(prop_sol, prop_min) \/ RLt(prop_max, prop_sol)

Skip == [outcome |-> "skip"]

Raise == [outcome |-> "raise"]

\* mutant of wet_mass_ceiling: the thrust multiplied by the target instead of
\* divided by it, and the 1000 kg per ton left out
wet_mass_ceiling_Multiplied(t_eff, accel_target_g) == RDiv(RMul(RInt(t_eff), accel_target_g), <<981, 100>>)

\* m_wet_max_accel = t_eff / (accel_target_g * 1000.0 * g_m_s2): the heaviest
\* wet mass the effective thrust pushes at the target acceleration
wet_mass_ceiling(t_eff, accel_target_g) == RDiv(RInt(t_eff), RMul(accel_target_g, RInt(9810)))

\* one pass of the loop body for one combo; payload and propellant bounds
\* are the ordered ones
feasibility_row(row, dv_target_kps, accel_target_g, combat, payload_min, prop_min, prop_max) ==
    LET thrust       == row.DriveThrust
        thrust_cap   == row.DriveCombatThrustMultiplier
        ev_kps       == row.DriveEV
        m0           == RAdd(RInt(row.DriveMass), row.PPReactorMass)
        t_eff        == IF combat THEN thrust * thrust_cap ELSE thrust
        mass_ratio   == Exp2(dv_target_kps \div ev_kps)
        m_wet_max_accel == wet_mass_ceiling(t_eff, accel_target_g)
        mp_max_accel == RSub(RDiv(m_wet_max_accel, mass_ratio), m0)
        mp_max_prop  == IF RLt(RZero, prop_max)
                        THEN RSub(RDiv(prop_max, RSub(mass_ratio, RInt(1))), m0)
                        ELSE mp_max_accel
        mp_max_feasible == RMin(mp_max_accel, mp_max_prop)
        payload_sol  == payload_min
        prop_sol     == required_propellant(m0, payload_sol, mass_ratio)
        m_wet        == RAdd(RAdd(m0, payload_sol), prop_sol)
        accel_sol    == RDiv(RInt(t_eff), GravityDenominator(m_wet))
        additional_payload == RSub(mp_max_feasible, payload_sol)
    IN  IF ~row.ReactorEnoughPower THEN Skip
        ELSE IF thrust <= 0 THEN Skip
        ELSE IF ev_kps <= 0 THEN Skip
        ELSE IF t_eff <= 0 THEN Skip
        ELSE IF mass_ratio = Inf \/ RLe(mass_ratio, RInt(1)) THEN Skip
        ELSE IF RLe(m_wet_max_accel, RZero) THEN Skip
        ELSE IF RLt(mp_max_feasible, payload_min) THEN Skip
        ELSE IF outside_prop_bounds(prop_sol, prop_min, prop_max) THEN Skip
        \* t_eff / (m_wet * 1000.0 * g_m_s2): ZeroDivisionError for m_wet = 0.0
        ELSE IF m_wet = RZero THEN Raise
        ELSE IF RLt(accel_sol, accel_target_g) THEN Skip
        ELSE [outcome |-> "row",
              row |-> [Drive                     |-> row.Drive,
                       PowerPlant                |-> row.PowerPlant,
                       PayloadMass               |-> payload_sol,
                       PropellantMass            |-> prop_sol,
                       ResultDeltaV              |-> dv_target_kps,
                       ResultAccel               |-> accel_sol,
                       AdditionalPossiblePayload |->
                           IF RLt(additional_payload, RZero) THEN RZero
                           ELSE additional_payload]]

\* the loop over combos_df: results in the order of the combos
RECURSIVE feasibility_rows(_, _)
feasibility_rows(outcomes, k) ==
    IF k > Len(outcomes) THEN <<>>
    ELSE IF outcomes[k].outcome = "row"
    THEN <<outcomes[k].row>> \o feasibility_rows(outcomes, k + 1)
    ELSE feasibility_rows(outcomes, k + 1)

\* the call: [raised, rows]; raised means the call ended in an exception and
\* returned nothing
mission_feasibility_search(combos_df, dv_target_kps, accel_target_g, accel_type, payload_min, payload_max, prop_min, prop_max) ==
    IF combos_df = <<>> THEN [raised |-> FALSE, rows |-> <<>>]
    ELSE IF NonPositiveTargets(dv_target_kps, accel_target_g)
    THEN [raised |-> FALSE, rows |-> <<>>]
    ELSE LET \* reversed ranges are swapped
             p_min == IF payload_max < payload_min THEN payload_max ELSE payload_min
             r_min == IF prop_max < prop_min THEN prop_max ELSE prop_min
             r_max == IF prop_max < prop_min THEN prop_min ELSE prop_max
             outcomes == [k \in 1..Len(combos_df) |->
                             feasibility_row(combos_df[k], dv_target_kps,
                                             accel_target_g, use_combat(accel_type),
                                             RInt(p_min), RInt(r_min), RInt(r_max))]
         IN  IF \E k \in 1..Len(combos_df) : outcomes[k].outcome = "raise"
             THEN [raised |-> TRUE, rows |-> <<>>]
             ELSE [raised |-> FALSE, rows |-> feasibility_rows(outcomes, 1)]

(***************************************************************************)
(* Feature tables.  A catalog row carries the loader's columns; the        *)
(* display-only columns (propellant label, mix string, unlock project)     *)
(* take no part in any computation and are left out.  The row's `scarce`   *)
(* is the outcome of drive_uses_scarce for the session's abundance map     *)
(* and `fuel_score` the weighted propellant sum for its fuel weights.      *)
(***************************************************************************)
STR_Any_Reactor == <<"A","n","y"," ","R","e","a","c","t","o","r">>

drive_feature_row(row) ==
    LET req_pp_val == Strip(row.requiredPowerPlant)
    IN  [Name                    |-> row.DisplayName,
         FamilyName              |-> row.FamilyName,
         Thrust                  |-> row.thrust_N,
         CombatThrustMultiplier  |-> row.thrustCap,
         ExhaustVelocity         |-> row.EV_kps,
         PowerUseEfficiency      |-> row.efficiency,
         DriveMass               |-> row.flatMass_tons,
         ApproxDrivePower        |-> compute_drive_power_gw(row.thrust_N, row.EV_kps),
         BackupPowerMode         |-> interpret_backup(row.backup),
         HasIdleBackup           |-> has_idle_backup(row.backup),
         UsesScarcePropellant    |-> row.scarce,
         RequiredPowerPlant      |-> IF req_pp_val = <<>> THEN STR_Any_Reactor
                                     ELSE req_pp_val,
         ExpensiveFuelScore      |-> row.fuel_score,
         UnlockTotalResearchCost |-> row.total_proj_cost]

build_drive_features(df) == [k \in 1..Len(df) |-> drive_feature_row(df[k])]

build_pp_features(df) ==
    [k \in 1..Len(df) |->
        [Name                    |-> df[k].DisplayName,
         Class                   |-> df[k].powerPlantClass,
         MaxOutput               |-> df[k].maxOutput_GW,
         SpecificPower           |-> df[k].specificPower_tGW,
         Efficiency              |-> df[k].efficiency,
         Crew                    |-> df[k].crew,
         GeneralUse              |-> df[k].generalUse_bool,
         UnlockTotalResearchCost |-> df[k].total_proj_cost]]

(***************************************************************************)
(* Project graph.  A template row is [dataName, researchCost, prereqs,     *)
(* altPrereqs]; a graph is the sequence of its nodes [pid, cost, prereqs,  *)
(* alt_prereqs] in the insertion order of the dict.  list({...}) lists a   *)
(* set of strings in the order of their hashes, which differs from one     *)
(* process to the next: build_project_graph is the set of the graphs one   *)
(* template can give.                                                      *)
(***************************************************************************)
\* every listing of the set S without repetition
RECURSIVE Orderings(_)
Orderings(S) ==
    IF S = {} THEN {<<>>}
    ELSE UNION {{<<x>> \o rest : rest \in Orderings(S \ {x})} : x \in S}

\* {p for p in prereqs if p}
NonEmptyValues(values) == {values[k] : k \in DOMAIN values} \ {""}

\* graph[pid] = node: a new key goes last, an old key keeps its place
graph_put(graph, node) ==
    IF \E k \in DOMAIN graph : graph[k].pid = node.pid
    THEN [k \in DOMAIN graph |-> IF graph[k].pid = node.pid THEN node ELSE graph[k]]
    ELSE Append(graph, node)

\* the loop over project_df.iterrows(), from row k on
RECURSIVE graphs_from(_, _, _)
graphs_from(project_df, k, graph) ==
    IF k > Len(project_df) THEN {graph}
    ELSE IF project_df[k].dataName = "" THEN graphs_from(project_df, k + 1, graph)
    ELSE UNION {graphs_from(project_df, k + 1,
                            graph_put(graph, [pid         |-> project_df[k].dataName,
                                              cost        |-> project_df[k].researchCost,
                                              prereqs     |-> prereqs,
                                              alt_prereqs |-> alt_prereqs])) :
                   prereqs \in Orderings(NonEmptyValues(project_df[k].prereqs)),
                   alt_prereqs \in Orderings(NonEmptyValues(project_df[k].altPrereqs))}

build_project_graph(project_df) == graphs_from(project_df, 1, <<>>)

\* pid in project_graph, and project_graph[pid]
InGraph(project_graph, pid) == \E k \in DOMAIN project_graph : project_graph[k].pid = pid

NodeOf(project_graph, pid) ==
    project_graph[CHOOSE k \in DOMAIN project_graph : project_graph[k].pid = pid]

\* memo[pid] = total
memo_put(memo, pid, total) ==
    [x \in DOMAIN memo \cup {pid} |-> IF x = pid THEN total ELSE memo[x]]

\* dfs returns [total, memo]: the value and the memo it leaves behind
RECURSIVE dfs(_, _, _, _)
RECURSIVE dfs_sum(_, _, _, _, _)
RECURSIVE dfs_min(_, _, _, _, _)
dfs(project_graph, pid, visiting, memo) ==
    IF pid \in DOMAIN memo THEN [total |-> memo[pid], memo |-> memo]
    ELSE IF ~InGraph(project_graph, pid)
    THEN [total |-> 0, memo |-> memo_put(memo, pid, 0)]
    ELSE IF pid \in visiting THEN [total |-> 0, memo |-> memo]
    ELSE LET node         == NodeOf(project_graph, pid)
             new_visiting == visiting \cup {pid}
             prereqs      == node.prereqs
             alt_prereqs  == node.alt_prereqs
             fixed        == IF prereqs # <<>> THEN Tail(prereqs) ELSE <<>>
             options      == (IF prereqs # <<>> THEN <<prereqs[1]>> ELSE <<>>)
                             \o alt_prereqs
             of_fixed     == dfs_sum(project_graph, fixed, 1, new_visiting, memo)
             of_options   == dfs_min(project_graph, options, 1, new_visiting,
                                     of_fixed.memo)
             of_prereqs   == dfs_sum(project_graph, prereqs, 1, new_visiting, memo)
         IN  IF prereqs = <<>> /\ alt_prereqs = <<>>
             THEN [total |-> node.cost, memo |-> memo_put(memo, pid, node.cost)]
             ELSE IF alt_prereqs # <<>>
             THEN [total |-> node.cost + of_fixed.total + of_options.total,
                   memo  |-> memo_put(of_options.memo, pid,
                                      node.cost + of_fixed.total + of_options.total)]
             ELSE [total |-> node.cost + of_prereqs.total,
                   memo  |-> memo_put(of_prereqs.memo, pid,
                                      node.cost + of_prereqs.total)]

\* for pre in pres: total += dfs(pre, new_visiting), from index k on
dfs_sum(project_graph, pres, k, visiting, memo) ==
    IF k > Len(pres) THEN [total |-> 0, memo |-> memo]
    ELSE LET first == dfs(project_graph, pres[k], visiting, memo)
             rest  == dfs_sum(project_graph, pres, k + 1, visiting, first.memo)
         IN  [total |-> first.total + rest.total, memo |-> rest.memo]

\* min(dfs(opt, new_visiting) for opt in options), from index k on (options
\* is never empty where it is called)
dfs_min(project_graph, options, k, visiting, memo) ==
    LET first == dfs(project_graph, options[k], visiting, memo)
        rest  == dfs_min(project_graph, options, k + 1, visiting, first.memo)
    IN  IF k = Len(options) THEN first
        ELSE [total |-> IF first.total <= rest.total THEN first.total ELSE rest.total,
              memo  |-> rest.memo]

\* for pid in project_graph.keys(): dfs(pid, set()), from key k on
RECURSIVE costs_from(_, _, _)
costs_from(project_graph, k, memo) ==
    IF k > Len(project_graph) THEN memo
    ELSE costs_from(project_graph, k + 1,
                    dfs(project_graph, project_graph[k].pid, {}, memo).memo)

compute_total_project_costs(project_graph) == costs_from(project_graph, 1, <<>>)

\* prereq_satisfied(pr)
prereq_satisfied(project_graph, reachable, pr) ==
    pr \in reachable \/ ~InGraph(project_graph, pr)

\* the projects one pass of the loop adds
newly_reachable(project_graph, reachable) ==
    {project_graph[k].pid : k \in
        {k \in DOMAIN project_graph :
            LET node        == project_graph[k]
                prereqs     == node.prereqs
                alt_prereqs == node.alt_prereqs
                fixed       == IF prereqs # <<>> THEN Tail(prereqs) ELSE <<>>
                options     == (IF prereqs # <<>> THEN <<prereqs[1]>> ELSE <<>>)
                               \o alt_prereqs
            IN  /\ node.pid \notin reachable
                /\ IF prereqs = <<>> /\ alt_prereqs = <<>> THEN TRUE
                   ELSE IF alt_prereqs # <<>>
                   THEN /\ \A i \in DOMAIN fixed :
                              prereq_satisfied(project_graph, reachable, fixed[i])
                        /\ \E i \in DOMAIN options :
                              prereq_satisfied(project_graph, reachable, options[i])
                   ELSE \A i \in DOMAIN prereqs :
                            prereq_satisfied(project_graph, reachable, prereqs[i])}}

\* for _ in range(steps), with the break on an empty pass
RECURSIVE reachable_after(_, _, _)
reachable_after(project_graph, reachable, steps) ==
    IF steps <= 0 THEN reachable
    ELSE IF newly_reachable(project_graph, reachable) = {} THEN reachable
    ELSE reachable_after(project_graph,
                         reachable \cup newly_reachable(project_graph, reachable),
                         steps - 1)

compute_reachable_projects(project_graph, completed_projects, max_steps) ==
    reachable_after(project_graph, completed_projects, max_steps)

(***************************************************************************)
(* Session: what main() holds during one run of the script.                *)
(***************************************************************************)
\* the reference ship of a fresh session, in tons
DEFAULT_REF_PAYLOAD_TONS == 1000

DEFAULT_REF_PROPELLANT_TONS == 1000

VARIABLES
    pc,                   \* "start": nothing unlocked yet; "done": main() has run
    unlocked_drives,      \* catalog rows of the unlocked drive families
    unlocked_pps,         \* catalog rows of the unlocked power plants
    care_backup,          \* sidebar checkboxes
    care_crew,
    ignore_intraclass,
    ref_payload_tons,     \* reference ship
    ref_propellant_tons,
    drive_feat,           \* annotated drive table, or None
    pp_feat,              \* annotated power plant table, or None
    combos_all,           \* output of build_valid_drive_pp_combos, or None
    combos_df,            \* annotated combos with enough power, or None
    hide_combo_obsolete,  \* checkbox "Hide dominated combos"
    combos_for_feas,      \* the combos handed to the mission search, or None
    search_call,          \* arguments of the last mission_feasibility_search call
    feas_df,              \* its outcome [raised, rows], or None
    repeat_call,          \* a core function called twice on the same objects
    project_graph,        \* [loaded, project_raw, nodes]: the project graph
    project_total_costs,  \* the memo of compute_total_project_costs
    reachable_call,       \* arguments and result of compute_reachable_projects
    session_state,        \* st.session_state: unlocked lists, settings, stored hash
    uploaded_profile,     \* the file held by the sidebar uploader, 0 for none
    sidebar_message       \* [event, outcome]: the last run and its upload block

vars == <<pc, unlocked_drives, unlocked_pps, care_backup, care_crew,
          ignore_intraclass, ref_payload_tons, ref_propellant_tons,
          drive_feat, pp_feat, combos_all, combos_df,
          hide_combo_obsolete, combos_for_feas, search_call, feas_df,
          repeat_call, project_graph, project_total_costs, reachable_call,
          session_state, uploaded_profile, sidebar_message>>

\* the tables and calls of the planner proper
planner_vars == <<pc, unlocked_drives, unlocked_pps, care_backup, care_crew,
                  ignore_intraclass, ref_payload_tons, ref_propellant_tons,
                  drive_feat, pp_feat, combos_all, combos_df,
                  hide_combo_obsolete, combos_for_feas, search_call, feas_df,
                  repeat_call>>

\* the project graph and what is computed from it
tech_vars == <<project_graph, project_total_costs, reachable_call>>

\* the session state the sidebar and the unlock buttons work on
sidebar_vars == <<session_state, uploaded_profile, sidebar_message>>

\* a table variable holds None or a table (the sequence of its rows)
None == [is_none |-> TRUE, rows |-> <<>>]

Table(rows) == [is_none |-> FALSE, rows |-> rows]

\* combos_all[combos_all["Reactor Enough Power?"]]
EnoughPowerOnly(combos) == SelectSeq(combos, LAMBDA c : c.ReactorEnoughPower)

\* combos_df[~combos_df["Combo Obsolete"]] when dominated combos are hidden
combos_listing(combos, hide_dominated_flag) ==
    IF hide_dominated_flag THEN SelectSeq(combos, LAMBDA c : ~c.ComboObsolete)
    ELSE combos

(***************************************************************************)
(* Calls by reference.  A DataFrame object is a frame [columns, rows]; a    *)
(* call of a core function is described by the frames its arguments are    *)
(* after the call (args_after) and by what it returns (ret).                *)
(***************************************************************************)
Frame(columns, rows) == [columns |-> columns, rows |-> rows]

\* pd.DataFrame(rows): no rows, no columns
FrameOf(rows) == Frame(IF rows = <<>> THEN {} ELSE DOMAIN rows[1], rows)

\* combos_all[combos_all["Reactor Enough Power?"]].copy(): the columns stay
EnoughPowerFrame(frame) ==
    IF "ReactorEnoughPower" \in frame.columns
    THEN Frame(frame.columns, EnoughPowerOnly(frame.rows))
    ELSE frame

\* out = feat_df.copy(): the argument is read only
call_annotate_drive_obsolescence(feat_df, cb, ii) ==
    [args_after |-> <<feat_df>>,
     ret        |-> FrameOf(annotate_drive_obsolescence(feat_df.rows, cb, ii))]

call_annotate_pp_obsolescence(feat_df, cc) ==
    [args_after |-> <<feat_df>>,
     ret        |-> FrameOf(annotate_pp_obsolescence(feat_df.rows, cc))]

\* valid_drives and valid_plants are new frames, the result is built from
\* a list of dicts
call_build_valid_drive_pp_combos(drive_frame, pp_frame, payload, propellant) ==
    [args_after |-> <<drive_frame, pp_frame>>,
     ret        |-> FrameOf(build_valid_drive_pp_combos(drive_frame.rows, pp_frame.rows,
                                                        payload, propellant))]

ComboFlagColumns == {"ComboObsolete", "ComboDominatedBy"}

\* on an empty frame the two columns are set on the argument itself, which
\* is returned; otherwise they are set on a copy
call_annotate_combo_obsolescence(frame) ==
    IF frame.rows = <<>>
    THEN LET marked == Frame(frame.columns \cup ComboFlagColumns, <<>>)
         IN  [args_after |-> <<marked>>, ret |-> marked]
    ELSE [args_after |-> <<frame>>,
          ret        |-> Frame(frame.columns \cup ComboFlagColumns,
                               annotate_combo_obsolescence(frame.rows))]

\* the loop reads the rows through iterrows() and row.get()
call_mission_feasibility_search(frame, dv_target_kps, accel_target_g, accel_type, payload_min, payload_max, prop_min, prop_max) ==
    [args_after |-> <<frame>>,
     ret        |-> mission_feasibility_search(frame.rows, dv_target_kps,
                        accel_target_g, accel_type,
                        payload_min, payload_max, prop_min, prop_max)]

CoreFunctions ==
    {"annotate_drive_obsolescence", "annotate_pp_obsolescence",
     "build_valid_drive_pp_combos", "annotate_combo_obsolescence",
     "mission_feasibility_search"}

\* no core function has been called twice
NoRepeat == [fn |-> "none", before |-> <<>>, after |-> <<>>,
             first |-> <<>>, second |-> <<>>]

\* no call of mission_feasibility_search has been made
NoCall == [called |-> FALSE, args |-> <<>>]

Call(combos, dv_target_kps, accel_target_g, accel_type, payload_min, payload_max, prop_min, prop_max) ==
    [called |-> TRUE,
     args   |-> [combos_df      |-> combos,
                 dv_target_kps  |-> dv_target_kps,
                 accel_target_g |-> accel_target_g,
                 accel_type     |-> accel_type,
                 payload_min    |-> payload_min,
                 payload_max    |-> payload_max,
                 prop_min       |-> prop_min,
                 prop_max       |-> prop_max]]

\* the outcome of the call with the recorded arguments
Outcome(call) ==
    mission_feasibility_search(call.args.combos_df, call.args.dv_target_kps,
                               call.args.accel_target_g, call.args.accel_type,
                               call.args.payload_min, call.args.payload_max,
                               call.args.prop_min, call.args.prop_max)

(***************************************************************************)
(* Inputs of the model: the catalog rows a session can have unlocked.      *)
(***************************************************************************)
\* the display names of the catalog drives, by family: the loader takes the
\* family of a drive from its display name without the trailing " xN"
DriveNames ==
    [Resistojet |-> <<"Resistojet x1", "Resistojet x2", "Resistojet x3">>,
     Torch      |-> <<"Torch x1", "Torch x2", "Torch x3">>]

PPNames == <<"p1", "p2", "p3">>

Families == DOMAIN DriveNames

\* the k-th row of a selection; its unlock cost is 0 (no cost data) for the
\* first row and positive after it
UnlockCost(k) == (k - 1) * 500

DriveRow(k, fam, thrust, ev, eff, mass, backup, scarce, req, cap, fuel) ==
    [DisplayName       |-> DriveNames[fam][k],
     FamilyName        |-> fam,
     thrust_N          |-> thrust,
     EV_kps            |-> ev,
     efficiency        |-> eff,
     flatMass_tons     |-> mass,
     thrustCap         |-> cap,
     backup            |-> backup,
     scarce            |-> scarce,
     requiredPowerPlant |-> req,
     fuel_score        |-> fuel,
     total_proj_cost   |-> UnlockCost(k)]

PPRow(k, class, output, spec, eff, crew, general) ==
    [DisplayName       |-> PPNames[k],
     powerPlantClass   |-> class,
     maxOutput_GW      |-> output,
     specificPower_tGW |-> spec,
     efficiency        |-> eff,
     crew              |-> crew,
     generalUse_bool   |-> general,
     total_proj_cost   |-> UnlockCost(k)]

\* every dominance field free; only equality of families matters, so the
\* first row's family is fixed
DriveRowsFull(k, fams, thrusts) ==
    {DriveRow(k, fam, thrust, ev, eff, mass, backup, scarce, <<>>, 1, 0) :
        fam \in fams, thrust \in thrusts, ev \in Levels, eff \in Levels,
        mass \in Levels, backup \in {"DriveIdle", "DriveActive"}, scarce \in BOOLEAN}

\* thrust and every flag free
DriveRowsNarrow(k, thrusts) ==
    {DriveRow(k, fam, thrust, 0, 0, 0, backup, scarce, <<>>, 1, 0) :
        fam \in Families, thrust \in thrusts,
        backup \in {"Always", "Never"}, scarce \in BOOLEAN}

DrivePairs ==
    {<<a, b>> : a \in DriveRowsFull(1, {"Resistojet"}, ThrustVals),
                b \in DriveRowsFull(2, Families, TwoThrusts)}

DriveTriples ==
    {<<a, b, c>> : a \in DriveRowsNarrow(1, ThrustVals),
                   b \in DriveRowsNarrow(2, TwoThrusts),
                   c \in DriveRowsNarrow(3, TwoThrusts)}

PPRowsFull(k, outputs) ==
    {PPRow(k, <<>>, output, spec, eff, crew, general) :
        output \in outputs, spec \in Levels, eff \in Levels, crew \in Levels,
        general \in BOOLEAN}

PPRowsNarrow(k, outputs) ==
    {PPRow(k, <<>>, output, spec, 0, crew, general) :
        output \in outputs, spec \in Levels, crew \in Levels, general \in BOOLEAN}

PPPairs == {<<a, b>> : a \in PPRowsFull(1, Vals), b \in PPRowsFull(2, Levels)}

PPTriples ==
    {<<a, b, c>> : a \in PPRowsNarrow(1, Vals), b \in PPRowsNarrow(2, Levels),
                   c \in PPRowsNarrow(3, Levels)}

\* selections for the combination builder: class tags, thrust, exhaust
\* velocity and reactor output vary
STR_Fission == <<"F","i","s","s","i","o","n">>

STR_Any_Fus == <<"A","n","y","_","F","u","s">>

STR_Fusion == <<"F","u","s","i","o","n">>

STR_Fission_Pile == <<"F","i","s","s","i","o","n"," ","P","i","l","e">>

RequiredSamples == {<<>>, STR_Fission, STR_Any_Fus}

ClassSamples == {<<>>, STR_Fission_Pile, STR_Fusion}

EVSamples == {0, 1, 3}

\* the two drives of a selection for the builder are of different families
ComboFamilies == <<"Resistojet", "Torch">>

ComboDriveRows(k, thrusts) ==
    {DriveRow(k, ComboFamilies[k], thrust, ev, 0, 1000, "Never", FALSE, req, k, 0) :
        thrust \in thrusts, ev \in EVSamples, req \in RequiredSamples}

ComboPPRows(k, outputs) ==
    {PPRow(k, class, output, 1000, 0, 0, TRUE) :
        output \in outputs, class \in ClassSamples}

\* class tags as they can stand in the templates: mixed case, spaces,
\* repeated underscores, generic tags, an "any_" tag without a suffix
STR_Any_General == <<"A","n","y","_","G","e","n","e","r","a","l">>

STR_ANY == <<"A","N","Y">>

STR_any_power_plant_spaced == <<"a","n","y"," ","p","o","w","e","r"," ","p","l","a","n","t">>

STR_Any_Only == <<"A","n","y","_">>

STR_Fission_padded == <<" ","F","i","s","s","i","o","n"," ">>

STR_Fusion__Torus == <<"F","u","s","i","o","n","_","_","T","o","r","u","s">>

STR_fusion_torus == <<"f","u","s","i","o","n","_","t","o","r","u","s">>

RequiredTags ==
    {<<>>, STR_Any_General, STR_ANY, STR_any_power_plant_spaced, STR_Any_Fus,
     STR_Any_Only, STR_Fission_padded, STR_Fusion__Torus}

ClassTags == {<<>>, STR_Fusion, STR_Fission_Pile, STR_fusion_torus}

\* one drive and one power plant: every tag of RequiredTags against every
\* class of ClassTags
TagDriveRows ==
    {DriveRow(1, "Resistojet", thrust, ev, 0, 1000, "Never", FALSE, req, 1, 0) :
        thrust \in TwoThrusts, ev \in EVSamples, req \in RequiredTags}

TagPPRows == {PPRow(1, class, output, 1000, 0, 0, TRUE) :
                 output \in Vals, class \in ClassTags}

ComboDrivePairs ==
    {<<a, b>> : a \in ComboDriveRows(1, ThrustVals), b \in ComboDriveRows(2, TwoThrusts)}

ComboPPPairs == {<<a, b>> : a \in ComboPPRows(1, Vals), b \in ComboPPRows(2, Levels)}

\* the worked example: a drive of 1000 N, 50 km/s and 5 t with a reactor of
\* 1 GW and 2 t/GW
ExampleDrive == DriveRow(1, "Resistojet", 1000, 50, 0, 5, "Never", FALSE, <<>>, 1, 0)

ExampleReactor == PPRow(1, <<>>, 1, 2, 0, 0, TRUE)

\* ships for the mission search: drives and reactors with and without mass
MassSamples == {0, 1000}

PositiveEVs == {1, 3}

ShipDriveRows(k, thrusts, evs) ==
    {DriveRow(k, ComboFamilies[k], thrust, ev, 0, mass, "Never", FALSE, <<>>, k, 0) :
        thrust \in thrusts, ev \in evs, mass \in MassSamples}

ShipDrivePairs ==
    {<<a, b>> : a \in ShipDriveRows(1, ThrustVals, EVSamples),
                b \in ShipDriveRows(2, TwoThrusts, PositiveEVs)}

\* outputs below, at and above the 1.5 GW of a drive with ev 3
ShipOutputs == {0, 1, 2}

ShipPPRows == {PPRow(1, <<>>, output, spec, 0, 0, TRUE) :
                  output \in ShipOutputs, spec \in MassSamples}

\* a fleet for the runs under every setting of the session flags: two drives
\* of one family and two reactors
FleetDrivePairs ==
    {<<DriveRow(1, "Resistojet", ThrustUnit, ev1, 0, mass, "Never", FALSE, <<>>, 2, 0),
       DriveRow(2, "Resistojet", ThrustUnit, ev2, 0, 1000, backup, FALSE, <<>>, 2, 0)>> :
        ev1 \in PositiveEVs, mass \in MassSamples,
        ev2 \in PositiveEVs, backup \in {"Never", "Always"}}

FleetPPPairs ==
    {<<PPRow(1, <<>>, output, spec, 0, 1, TRUE),
       PPRow(2, <<>>, 2, 1000, 0, crew, TRUE)>> :
        output \in {1, 2}, spec \in MassSamples, crew \in {0, 1}}

\* mission targets.  Delta-v in units of ln 2 km/s: 3 gives the mass ratios
\* 8 (ev 1) and 2 (ev 3), 6144 overflows math.exp for both
STR_Combat == <<"C","o","m","b","a","t">>

STR_Cruise == <<"C","r","u","i","s","e">>

AccelTypes == {STR_Combat, STR_Cruise}

OneInHundred == <<1, 100>>

OneInTwenty == <<1, 20>>

\* the constants of main()'s call
MainPayloadMax == 300000

MainPropMin == 0

MainPropMax == 20000

\* [dv, accel, type, payload_min, payload_max, prop_min, prop_max]: calls as
\* main() makes them, calls with a target that is not positive, and calls
\* with a reversed payload or propellant range
SearchArgs ==
    {<<dv, accel, type, payload, MainPayloadMax, MainPropMin, MainPropMax>> :
        dv \in {3, 6144}, accel \in {OneInHundred, OneInTwenty},
        type \in AccelTypes, payload \in {0, 100}}
    \cup {<<0, OneInHundred, STR_Combat, 100, MainPayloadMax, MainPropMin, MainPropMax>>,
          <<0 - 3, OneInHundred, STR_Combat, 100, MainPayloadMax, MainPropMin, MainPropMax>>,
          <<3, RZero, STR_Combat, 100, MainPayloadMax, MainPropMin, MainPropMax>>,
          <<3, <<0 - 1, 100>>, STR_Cruise, 100, MainPayloadMax, MainPropMin, MainPropMax>>,
          <<0, RZero, STR_Cruise, 0, MainPayloadMax, MainPropMin, MainPropMax>>}
    \cup {<<3, OneInHundred, type, 3000, 100, MainPropMin, MainPropMax>> :
             type \in AccelTypes}
    \cup {<<3, OneInHundred, type, 100, MainPayloadMax, MainPropMax, MainPropMin>> :
             type \in AccelTypes}
    \cup {<<3, OneInHundred, STR_Combat, 100, MainPayloadMax, 12000, MainPropMax>>,
          <<3, OneInHundred, STR_Combat, 100, MainPayloadMax, MainPropMin, 700>>}

\* <<dv, accel, type, min_payload>>: values the four mission widgets can
\* hold (none is below 0)
MissionInputs ==
    {<<3, OneInHundred, type, payload>> : type \in AccelTypes, payload \in {0, 100}}
    \cup {<<0, OneInHundred, STR_Combat, 100>>, <<3, RZero, STR_Cruise, 100>>}

(***************************************************************************)
(* Project templates: the rows of TIProjectTemplate.json the model draws,  *)
(* and the two steps of main() that work on the project graph.             *)
(***************************************************************************)
\* project_raw is the template the graph was built from
NoGraph == [loaded |-> FALSE, project_raw |-> <<>>, nodes |-> <<>>]

NoReach == [called |-> FALSE, completed_projects |-> {}, max_steps |-> 0,
            reachable_projects |-> {}]

TemplateRow(dataName, researchCost, prereqs, altPrereqs) ==
    [dataName |-> dataName, researchCost |-> researchCost,
     prereqs |-> prereqs, altPrereqs |-> altPrereqs]

\* a row without a name and a second row for B, or neither
ExtraRows ==
    {<<>>, <<TemplateRow("", 16, <<"A">>, <<>>), TemplateRow("B", 32, <<"C">>, <<>>)>>}

\* four projects with costs 1, 2, 4 and 8; "Tech" is a global technology,
\* not a project; some templates are cyclic, some have alternatives
ProjectTemplates ==
    {<<TemplateRow("A", 1, a, alt), TemplateRow("B", 2, b, <<>>),
       TemplateRow("C", 4, c, altc), TemplateRow("D", 8, d, <<>>)>> \o extra :
        a \in {<<>>, <<"B">>, <<"B", "C">>, <<"B", "C", "D">>, <<"B", "Tech">>,
               <<"B", "", "B">>},
        alt \in {<<>>, <<"D">>, <<"C", "D">>},
        b \in {<<>>, <<"D">>, <<"C">>, <<"A">>},
        c \in {<<>>, <<"D">>},
        altc \in {<<>>, <<"B">>},
        d \in {<<>>, <<"Tech">>, <<"D">>},
        extra \in ExtraRows}

CompletedSamples == {{}, {"D"}, {"B", "C"}, {"C", "D"}, {"Tech"}}

StepSamples == {0, 1, 3}

\* main(): the graph is built from the templates and the total costs are
\* computed from it
LoadProjects ==
    /\ ~project_graph.loaded
    /\ \E project_df \in ProjectTemplates :
          \E graph \in build_project_graph(project_df) :
              /\ project_graph' = [loaded |-> TRUE, project_raw |-> project_df,
                                    nodes |-> graph]
              /\ project_total_costs' = compute_total_project_costs(graph)
    /\ UNCHANGED <<planner_vars, reachable_call, sidebar_vars>>

\* main(): the projects reachable from the completed ones in tech_max_steps
ReachableProjects ==
    /\ project_graph.loaded
    /\ ~reachable_call.called
    /\ \E completed_projects \in CompletedSamples, max_steps \in StepSamples :
          reachable_call' =
              [called |-> TRUE,
               completed_projects |-> completed_projects,
               max_steps |-> max_steps,
               reachable_projects |->
                   compute_reachable_projects(project_graph.nodes,
                                              completed_projects, max_steps)]
    /\ UNCHANGED <<planner_vars, project_graph, project_total_costs, sidebar_vars>>

(***************************************************************************)
(* Sidebar session: st.session_state, the profile uploader and the unlock  *)
(* buttons.  A JSON value is [t, v] with t its type; a dict is a function  *)
(* from its keys.  An uploaded file is known by its length, its MD5 digest *)
(* and what json.loads makes of it.  Of the settings a profile carries the *)
(* model keeps the two unlock lists, care_backup and ref_payload_tons; the *)
(* other flags and weights go through the same to_bool, to_float and clamp *)
(* and are assigned in the same apply_profile.                             *)
(***************************************************************************)
JNull == [t |-> "null"]

JNaN == [t |-> "nan"]

JBool(v) == [t |-> "bool", v |-> v]

JNum(v) == [t |-> "num", v |-> v]

JStr(v) == [t |-> "str", v |-> v]

JList(v) == [t |-> "list", v |-> v]

JDict(v) == [t |-> "dict", v |-> v]

\* raw.get(key, default)
dict_get(raw, key, default) == IF key \in DOMAIN raw THEN raw[key] ELSE default

STR_true == <<"t","r","u","e">>

STR_yes == <<"y","e","s">>

STR_on == <<"o","n">>

STR_false == <<"f","a","l","s","e">>

STR_no == <<"n","o">>

STR_off == <<"o","f","f">>

Digits == <<"0","1","2","3","4","5","6","7","8","9">>

IsDigit(c) == \E k \in DOMAIN Digits : Digits[k] = c

DigitValue(c) == (CHOOSE k \in DOMAIN Digits : Digits[k] = c) - 1

\* the value of a string of decimal digits
RECURSIVE DigitsValue(_)
DigitsValue(s) ==
    IF s = <<>> THEN 0
    ELSE 10 * DigitsValue(SubSeq(s, 1, Len(s) - 1)) + DigitValue(s[Len(s)])

\* to_bool(v, default): a string is stripped and lowered before it is read
to_bool(v, default) ==
    IF v.t = "bool" THEN v.v
    ELSE IF v.t = "num" THEN v.v # 0
    ELSE IF v.t = "nan" THEN TRUE
    ELSE IF v.t = "str"
    THEN LET t == [k \in DOMAIN Strip(v.v) |-> LowerChar(Strip(v.v)[k])]
         IN  IF t \in {STR_true, <<"1">>, STR_yes, <<"y">>, STR_on} THEN TRUE
             ELSE IF t \in {STR_false, <<"0">>, STR_no, <<"n">>, STR_off} THEN FALSE
             ELSE default
    ELSE default

\* to_float(v, default): float(v), the default for what float() refuses and
\* for nan; the strings drawn are digits between blanks, or no number at all
to_float(v, default) ==
    IF v.t = "num" THEN v.v
    ELSE IF v.t = "bool" THEN (IF v.v THEN 1 ELSE 0)
    ELSE IF v.t = "str"
    THEN IF Strip(v.v) # <<>> /\ \A k \in DOMAIN Strip(v.v) : IsDigit(Strip(v.v)[k])
         THEN DigitsValue(Strip(v.v))
         ELSE default
    ELSE default

clamp(x, lo, hi) == IF x < lo THEN lo ELSE IF x > hi THEN hi ELSE x

\* mutant of unlocked_names: repeated names are kept
unlocked_names_KeepRepeated(raw_list, all_names) ==
    IF raw_list.t # "list" THEN <<>>
    ELSE LET strings == SelectSeq(raw_list.v, LAMBDA item : item.t = "str")
             known   == SelectSeq(strings, LAMBDA item :
                            \E k \in DOMAIN all_names : all_names[k] = item.v)
         IN  [k \in DOMAIN known |-> known[k].v]

\* the loop over udf_raw / upp_raw: the strings that name a catalog entry,
\* each once, in the order of their first appearance
RECURSIVE names_from(_, _, _, _)
names_from(items, k, all_names, unlocked) ==
    IF k > Len(items) THEN unlocked
    ELSE names_from(items, k + 1, all_names,
             IF /\ items[k].t = "str"
                /\ \E j \in DOMAIN all_names : all_names[j] = items[k].v
                /\ ~\E j \in DOMAIN unlocked : unlocked[j] = items[k].v
             THEN Append(unlocked, items[k].v)
             ELSE unlocked)

unlocked_names(raw_list, all_names) ==
    IF raw_list.t # "list" THEN <<>>
    ELSE names_from(raw_list.v, 1, all_names, <<>>)

\* sanitize_profile_dict: [raised, profile]
sanitize_profile_dict(raw_profile, all_drive_families, all_pp_names) ==
    IF raw_profile.t # "dict" THEN [raised |-> TRUE, profile |-> <<>>]
    ELSE [raised  |-> FALSE,
          profile |->
            [unlocked_drive_families |->
                 unlocked_names(dict_get(raw_profile.v, "unlocked_drive_families",
                                         JList(<<>>)),
                                all_drive_families),
             unlocked_pp |->
                 unlocked_names(dict_get(raw_profile.v, "unlocked_pp", JList(<<>>)),
                                all_pp_names),
             care_backup |->
                 to_bool(dict_get(raw_profile.v, "care_backup", JBool(TRUE)), TRUE),
             ref_payload_tons |->
                 clamp(to_float(dict_get(raw_profile.v, "ref_payload_tons",
                                         JNum(DEFAULT_REF_PAYLOAD_TONS)),
                                DEFAULT_REF_PAYLOAD_TONS),
                       100, 300000)]]

\* apply_profile(profile) on the session state
apply_profile(session, profile) ==
    [session EXCEPT !.unlocked_drive_families = profile.unlocked_drive_families,
                    !.unlocked_pp = profile.unlocked_pp,
                    !.care_backup = profile.care_backup,
                    !.ref_payload_tons = profile.ref_payload_tons]

\* len(json.dumps(max_profile_for_limit, indent=2)) for the catalog of the
\* model: two drive families, three reactors
max_profile_bytes == 724

size_limit_bytes == max_profile_bytes + 1024

\* hashlib.md5(file_bytes).hexdigest()
md5_hexdigest(file) == file.digest

\* mutant of same_upload: no upload is taken for the last one
same_upload_Never(last_hash, file_hash) == FALSE

\* not (last_hash != file_hash)
same_upload(last_hash, file_hash) == last_hash = file_hash

\* the upload block of main(): [session, outcome]
profile_upload(session, file, all_drive_families, all_pp_names) ==
    LET sanitized == sanitize_profile_dict(file.parsed.value,
                                           all_drive_families, all_pp_names)
    IN  IF ~file.present THEN [session |-> session, outcome |-> "none"]
        ELSE IF file.bytes_len = 0 THEN [session |-> session, outcome |-> "none"]
        ELSE IF same_upload(session.last_uploaded_profile_hash, md5_hexdigest(file))
        THEN [session |-> session, outcome |-> "none"]
        ELSE IF file.bytes_len > size_limit_bytes
        THEN [session |-> session, outcome |-> "too large"]
        ELSE IF ~file.parsed.ok
        THEN [session |-> session, outcome |-> "invalid JSON"]
        ELSE IF sanitized.raised
        THEN [session |-> session, outcome |-> "failed validation"]
        ELSE [session |-> [apply_profile(session, sanitized.profile)
                              EXCEPT !.last_uploaded_profile_hash = md5_hexdigest(file)],
              outcome |-> "applied"]

\* the catalogs: sorted(drive_raw["FamilyName"].unique()) and the reactors
all_drive_families == <<"Resistojet", "Torch">>

all_pp_names == <<"p1", "p2", "p3">>

FreshSession ==
    [unlocked_drive_families |-> <<>>,
     unlocked_pp |-> <<>>,
     care_backup |-> TRUE,
     ref_payload_tons |-> DEFAULT_REF_PAYLOAD_TONS,
     last_uploaded_profile_hash |-> "None"]

STR_Yes_padded == <<" ","Y","e","s"," ">>

STR_maybe == <<"m","a","y","b","e">>

STR_5000 == <<"5","0","0","0">>

\* profiles as json.loads returns them
CleanProfile ==
    JDict([unlocked_drive_families |-> JList(<<JStr("Torch")>>),
           unlocked_pp |-> JList(<<JStr("p2"), JStr("p1")>>),
           care_backup |-> JBool(FALSE),
           ref_payload_tons |-> JNum(5000)])

DirtyProfile ==
    JDict([unlocked_drive_families |->
               JList(<<JStr("Torch"), JStr("Torch"), JStr("Warp"), JNum(7), JNull,
                       JStr("Resistojet")>>),
           unlocked_pp |-> JStr("p1"),
           care_backup |-> JStr(STR_Yes_padded),
           ref_payload_tons |-> JNum(50)])

TextProfile ==
    JDict([unlocked_pp |-> JList(<<JStr("p3"), JStr("p3")>>),
           care_backup |-> JStr(STR_maybe),
           ref_payload_tons |-> JStr(STR_5000)])

OddProfile ==
    JDict([care_backup |-> JNum(0), ref_payload_tons |-> JNaN])

File(bytes_len, digest, ok, value) ==
    [present |-> TRUE, bytes_len |-> bytes_len, digest |-> digest,
     parsed |-> [ok |-> ok, value |-> value]]

NoFile == [present |-> FALSE, bytes_len |-> 0, digest |-> "None",
           parsed |-> [ok |-> FALSE, value |-> JNull]]

\* the files a user may hand to the uploader: profiles, an oversized file,
\* a file that is no JSON, a JSON list, an empty file, and a file with the
\* digest of the first and other content
UploadedFiles ==
    <<File(300, "d1", TRUE, CleanProfile),
      File(400, "d2", TRUE, DirtyProfile),
      File(200, "d3", TRUE, TextProfile),
      File(100, "d4", TRUE, OddProfile),
      File(2000, "d5", TRUE, CleanProfile),
      File(300, "d6", FALSE, JNull),
      File(300, "d7", TRUE, JList(<<JStr("Torch")>>)),
      File(0, "d8", FALSE, JNull),
      File(400, "d1", TRUE, DirtyProfile)>>

\* uploaded_profile is 0 for an empty uploader and the index of the file
FileAt(k) == IF k = 0 THEN NoFile ELSE UploadedFiles[k]

\* the unlock list a set of buttons works on
ListKeys == {"unlocked_drive_families", "unlocked_pp"}

CatalogOf(key) == IF key = "unlocked_drive_families" THEN all_drive_families ELSE all_pp_names

Placeholder == "-- Select --"

\* one run of main() up to the buttons: the widget event has changed
\* `session`, the upload block runs on the file in the uploader
Rerun(event, session, file_index, handler(_)) ==
    LET block == profile_upload(session, FileAt(file_index),
                                all_drive_families, all_pp_names)
    IN  /\ uploaded_profile' = file_index
        /\ session_state' = handler(block.session)
        /\ sidebar_message' = [event |-> event, outcome |-> block.outcome]

\* a file is put into the uploader
ChooseFile ==
    /\ \E k \in DOMAIN UploadedFiles :
          /\ k # uploaded_profile
          /\ Rerun("upload", session_state, k, LAMBDA s : s)
    /\ UNCHANGED <<planner_vars, tech_vars>>

\* the file is taken out of the uploader
RemoveFile ==
    /\ uploaded_profile # 0
    /\ Rerun("remove file", session_state, 0, LAMBDA s : s)
    /\ UNCHANGED <<planner_vars, tech_vars>>

\* the checkbox "care about backup power" is clicked
ToggleCareBackup ==
    /\ Rerun("care_backup", [session_state EXCEPT !.care_backup = ~@],
             uploaded_profile, LAMBDA s : s)
    /\ UNCHANGED <<planner_vars, tech_vars>>

\* "Add Drive Family" / "Add Reactor" with the choice of the select box
AddButton ==
    /\ \E key \in ListKeys :
          \E choice \in {CatalogOf(key)[k] : k \in DOMAIN CatalogOf(key)}
                           \cup {Placeholder} :
              Rerun("add", session_state, uploaded_profile,
                    LAMBDA s : IF choice # Placeholder
                                  /\ ~\E k \in DOMAIN s[key] : s[key][k] = choice
                               THEN [s EXCEPT ![key] = Append(@, choice)]
                               ELSE s)
    /\ UNCHANGED <<planner_vars, tech_vars>>

\* "Unlock ALL drive families" / "Unlock ALL reactors"
UnlockAllButton ==
    /\ \E key \in ListKeys :
          Rerun("unlock all", session_state, uploaded_profile,
                LAMBDA s : [s EXCEPT ![key] = CatalogOf(key)])
    /\ UNCHANGED <<planner_vars, tech_vars>>

\* "Clear all drives" / "Clear all reactors"
ClearButton ==
    /\ \E key \in ListKeys :
          Rerun("clear", session_state, uploaded_profile,
                LAMBDA s : [s EXCEPT ![key] = <<>>])
    /\ UNCHANGED <<planner_vars, tech_vars>>

\* "Remove Drive Families" / "Remove Reactors" with the multiselect's choice;
\* the button is drawn only under a list that is not empty
RemoveButton ==
    /\ \E key \in ListKeys :
          \E to_remove \in SUBSET {CatalogOf(key)[k] : k \in DOMAIN CatalogOf(key)} :
              /\ profile_upload(session_state, FileAt(uploaded_profile),
                                all_drive_families, all_pp_names).session[key] # <<>>
              /\ Rerun("remove", session_state, uploaded_profile,
                       LAMBDA s : [s EXCEPT ![key] =
                                      SelectSeq(@, LAMBDA d : d \notin to_remove)])
    /\ UNCHANGED <<planner_vars, tech_vars>>

(***************************************************************************)
(* main(): the script body from the feature tables to the combo table.     *)
(***************************************************************************)
Init ==
    /\ pc = "start"
    /\ unlocked_drives = <<>>
    /\ unlocked_pps = <<>>
    /\ care_backup = TRUE
    /\ care_crew = FALSE
    /\ ignore_intraclass = FALSE
    /\ ref_payload_tons = DEFAULT_REF_PAYLOAD_TONS
    /\ ref_propellant_tons = DEFAULT_REF_PROPELLANT_TONS
    /\ drive_feat = None
    /\ pp_feat = None
    /\ combos_all = None
    /\ combos_df = None
    /\ hide_combo_obsolete = TRUE
    /\ combos_for_feas = None
    /\ search_call = NoCall
    /\ feas_df = None
    /\ repeat_call = NoRepeat
    /\ project_graph = NoGraph
    /\ project_total_costs = <<>>
    /\ reachable_call = NoReach
    /\ session_state = FreshSession
    /\ uploaded_profile = 0
    /\ sidebar_message = [event |-> "start", outcome |-> "none"]

\* main() from the feature tables to combos_for_feas
Tables(drives, pps, cb, cc, ii, payload, propellant, hide) ==
    /\ pc' = "done"
    /\ unlocked_drives' = drives
    /\ unlocked_pps' = pps
    /\ care_backup' = cb
    /\ care_crew' = cc
    /\ ignore_intraclass' = ii
    /\ ref_payload_tons' = payload
    /\ ref_propellant_tons' = propellant
    /\ drive_feat' =
          IF drives = <<>> THEN None
          ELSE Table(annotate_drive_obsolescence(build_drive_features(drives), cb, ii))
    /\ pp_feat' =
          IF pps = <<>> THEN None
          ELSE Table(annotate_pp_obsolescence(build_pp_features(pps), cc))
    /\ combos_all' =
          IF drive_feat'.is_none \/ pp_feat'.is_none THEN None
          ELSE Table(build_valid_drive_pp_combos(drive_feat'.rows, pp_feat'.rows,
                                                 payload, propellant))
    /\ combos_df' =
          IF EnoughPowerOnly(combos_all'.rows) = <<>> THEN None
          ELSE Table(annotate_combo_obsolescence(EnoughPowerOnly(combos_all'.rows)))
    /\ hide_combo_obsolete' = hide
    /\ combos_for_feas' =
          IF combos_df'.is_none THEN None
          ELSE Table(combos_listing(combos_df'.rows, hide))
    /\ repeat_call' = NoRepeat
    /\ UNCHANGED <<tech_vars, sidebar_vars>>

\* one run of main() with the given selection and settings, dominated
\* combos hidden, the mission button not pressed
Run(drives, pps, cb, cc, ii, payload, propellant) ==
    /\ Tables(drives, pps, cb, cc, ii, payload, propellant, TRUE)
    /\ search_call' = NoCall
    /\ feas_df' = None

\* only drive families are unlocked
RunDrivesOnly ==
    /\ pc = "start"
    /\ \E drives \in DrivePairs \cup DriveTriples, cb \in BOOLEAN, ii \in BOOLEAN :
            Run(drives, <<>>, cb, FALSE, ii,
                DEFAULT_REF_PAYLOAD_TONS, DEFAULT_REF_PROPELLANT_TONS)

\* only power plants are unlocked
RunPlantsOnly ==
    /\ pc = "start"
    /\ \E pps \in PPPairs \cup PPTriples, cc \in BOOLEAN :
            Run(<<>>, pps, TRUE, cc, FALSE,
                DEFAULT_REF_PAYLOAD_TONS, DEFAULT_REF_PROPELLANT_TONS)

\* drives and power plants are unlocked
RunBoth ==
    /\ pc = "start"
    /\ \E drives \in ComboDrivePairs, pps \in ComboPPPairs :
            Run(drives, pps, TRUE, FALSE, FALSE,
                DEFAULT_REF_PAYLOAD_TONS, DEFAULT_REF_PROPELLANT_TONS)

\* one drive family with one drive and one power plant are unlocked
RunTags ==
    /\ pc = "start"
    /\ \E d \in TagDriveRows, p \in TagPPRows :
            Run(<<d>>, <<p>>, TRUE, FALSE, FALSE,
                DEFAULT_REF_PAYLOAD_TONS, DEFAULT_REF_PROPELLANT_TONS)

\* two drives and one reactor, with and without mass
RunShips ==
    /\ pc = "start"
    /\ \E drives \in ShipDrivePairs, p \in ShipPPRows :
            Run(drives, <<p>>, TRUE, FALSE, FALSE,
                DEFAULT_REF_PAYLOAD_TONS, DEFAULT_REF_PROPELLANT_TONS)

\* a call of mission_feasibility_search on the builder's output
SearchCall ==
    /\ pc = "done"
    /\ ~combos_all.is_none
    /\ \E a \in SearchArgs :
          /\ search_call' = Call(combos_all.rows, a[1], a[2], a[3], a[4], a[5], a[6], a[7])
          /\ feas_df' = Outcome(search_call')
    /\ pc' = "called"
    /\ UNCHANGED <<unlocked_drives, unlocked_pps, care_backup, care_crew,
                   ignore_intraclass, ref_payload_tons, ref_propellant_tons,
                   drive_feat, pp_feat, combos_all, combos_df,
                   hide_combo_obsolete, combos_for_feas, repeat_call,
                   tech_vars, sidebar_vars>>

\* the outcome of calling the core function fn on the frames args
CallOf(fn, args) ==
    CASE fn = "annotate_drive_obsolescence" ->
            call_annotate_drive_obsolescence(args[1], care_backup, ignore_intraclass)
      [] fn = "annotate_pp_obsolescence" ->
            call_annotate_pp_obsolescence(args[1], care_crew)
      [] fn = "build_valid_drive_pp_combos" ->
            call_build_valid_drive_pp_combos(args[1], args[2],
                                             ref_payload_tons, ref_propellant_tons)
      [] fn = "annotate_combo_obsolescence" ->
            call_annotate_combo_obsolescence(args[1])
      [] fn = "mission_feasibility_search" ->
            call_mission_feasibility_search(args[1], 3, OneInHundred, STR_Combat,
                                            100, MainPayloadMax, MainPropMin, MainPropMax)

\* the frames of the session that fn is called on
ArgsOf(fn) ==
    CASE fn = "annotate_drive_obsolescence" ->
            <<FrameOf(build_drive_features(unlocked_drives))>>
      [] fn = "annotate_pp_obsolescence" ->
            <<FrameOf(build_pp_features(unlocked_pps))>>
      [] fn = "build_valid_drive_pp_combos" ->
            <<FrameOf(drive_feat.rows), FrameOf(pp_feat.rows)>>
      [] fn = "annotate_combo_obsolescence" ->
            <<EnoughPowerFrame(FrameOf(combos_all.rows))>>
      [] fn = "mission_feasibility_search" ->
            <<FrameOf(combos_all.rows)>>

\* a core function is called on tables of the session, and called again on
\* the same objects
RepeatCall ==
    /\ pc = "done"
    /\ ~combos_all.is_none
    /\ \E fn \in CoreFunctions :
          LET first  == CallOf(fn, ArgsOf(fn))
              second == CallOf(fn, first.args_after)
          IN  repeat_call' = [fn     |-> fn,
                              before |-> ArgsOf(fn),
                              after  |-> first.args_after,
                              first  |-> first.ret,
                              second |-> second.ret]
    /\ pc' = "repeated"
    /\ UNCHANGED <<unlocked_drives, unlocked_pps, care_backup, care_crew,
                   ignore_intraclass, ref_payload_tons, ref_propellant_tons,
                   drive_feat, pp_feat, combos_all, combos_df,
                   hide_combo_obsolete, combos_for_feas, search_call, feas_df,
                   tech_vars, sidebar_vars>>

\* a run of main() under any setting of the four session flags
RunFleet ==
    /\ pc = "start"
    /\ \E drives \in FleetDrivePairs, pps \in FleetPPPairs,
          cb \in BOOLEAN, cc \in BOOLEAN, ii \in BOOLEAN, hide \in BOOLEAN :
            /\ Tables(drives, pps, cb, cc, ii,
                      DEFAULT_REF_PAYLOAD_TONS, DEFAULT_REF_PROPELLANT_TONS, hide)
            /\ search_call' = NoCall
            /\ feas_df' = None

\* the rerun of main() on "Calculate mission feasibility": the tables are
\* rebuilt from the session, then the targets are checked and the search runs
CalculateMission ==
    /\ pc = "done"
    /\ ~combos_df.is_none
    /\ \E w \in MissionInputs :
        LET dv_target    == w[1]
            accel_target == w[2]
            accel_type   == w[3]
            min_payload  == w[4]
        IN
          /\ unlocked_drives' = unlocked_drives
          /\ unlocked_pps' = unlocked_pps
          /\ care_backup' = care_backup
          /\ care_crew' = care_crew
          /\ ignore_intraclass' = ignore_intraclass
          /\ ref_payload_tons' = ref_payload_tons
          /\ ref_propellant_tons' = ref_propellant_tons
          /\ drive_feat' = Table(annotate_drive_obsolescence(
                                    build_drive_features(unlocked_drives),
                                    care_backup, ignore_intraclass))
          /\ pp_feat' = Table(annotate_pp_obsolescence(
                                 build_pp_features(unlocked_pps), care_crew))
          /\ combos_all' = Table(build_valid_drive_pp_combos(
                                    drive_feat'.rows, pp_feat'.rows,
                                    ref_payload_tons, ref_propellant_tons))
          /\ combos_df' = Table(annotate_combo_obsolescence(
                                   EnoughPowerOnly(combos_all'.rows)))
          /\ hide_combo_obsolete' = hide_combo_obsolete
          /\ combos_for_feas' =
                Table(combos_listing(combos_df'.rows, hide_combo_obsolete))
          /\ repeat_call' = NoRepeat
          /\ UNCHANGED <<tech_vars, sidebar_vars>>
          /\ IF dv_target <= 0 \/ RLe(accel_target, RZero)
             THEN /\ pc' = "warned"
                  /\ search_call' = NoCall
                  /\ feas_df' = None
             ELSE /\ pc' = "searched"
                  /\ search_call' = Call(combos_for_feas'.rows, dv_target, accel_target,
                                         accel_type, min_payload,
                                         MainPayloadMax, MainPropMin, MainPropMax)
                  /\ feas_df' = Outcome(search_call')

\* the drive and the reactor of the worked example are unlocked
RunExample ==
    /\ pc = "start"
    /\ Run(<<ExampleDrive>>, <<ExampleReactor>>, TRUE, FALSE, FALSE,
           DEFAULT_REF_PAYLOAD_TONS, DEFAULT_REF_PROPELLANT_TONS)

Next == RunDrivesOnly \/ RunPlantsOnly \/ RunBoth

Spec == Init /\ [][Next]_vars

\* the runs with drives unlocked only, and with reactors unlocked only
SpecDrives == Init /\ [][RunDrivesOnly]_vars

SpecPlants == Init /\ [][RunPlantsOnly]_vars

\* the runs that reach the combination builder
SpecCombos == Init /\ [][RunBoth \/ RunTags \/ RunExample]_vars

\* calls of the mission search on tables the builder produces
SpecSearch == Init /\ [][RunShips \/ SearchCall]_vars

\* sessions in which the mission button is pressed
SpecMission == Init /\ [][RunFleet \/ CalculateMission]_vars

\* core functions called twice on the tables of a run
SpecRepeat == Init /\ [][RunShips \/ RepeatCall]_vars

\* the annotators alone: drive tables, reactor tables and the combos of a fleet
SpecAnnotate == Init /\ [][RunDrivesOnly \/ RunPlantsOnly \/ RunFleet]_vars

\* the project graph: loaded, then searched for the reachable projects
SpecProjects == Init /\ [][LoadProjects \/ ReachableProjects]_vars

\* the session under file uploads, setting changes and the unlock buttons
SpecSession ==
    Init /\ [][ChooseFile \/ RemoveFile \/ ToggleCareBackup \/ AddButton
                 \/ UnlockAllButton \/ ClearButton \/ RemoveButton]_vars

(***************************************************************************)
(* Properties.  The tables of a finished run are compared with the         *)
(* dominance relations stated over the rows of the selection.              *)
(***************************************************************************)
Done == pc = "done"

DrivesAnnotated == Done /\ ~drive_feat.is_none

PlantsAnnotated == Done /\ ~pp_feat.is_none

Indices(df) == 1..Len(df)

\* the names of the rows of df selected by the boolean function sel, in table order
RECURSIVE NamesWhere(_, _, _)
NamesWhere(df, sel, j) ==
    IF j > Len(df) THEN <<>>
    ELSE (IF sel[j] THEN <<df[j].Name>> ELSE <<>>) \o NamesWhere(df, sel, j + 1)

RECURSIVE SumSeq(_)
SumSeq(s) == IF s = <<>> THEN 0 ELSE Head(s) + SumSeq(Tail(s))

\* the tallies of an annotated table df agree with the relation R over its rows
TalliesAgree(df, R(_, _)) ==
    /\ \A i \in Indices(df) :
          /\ df[i].Obsolete <=> \E j \in Indices(df) \ {i} : R(j, i)
          /\ df[i].DominatedBy
               = NamesWhere(df, [j \in Indices(df) |-> j # i /\ R(j, i)], 1)
          /\ df[i].DominatesCount = Cardinality({j \in Indices(df) \ {i} : R(i, j)})
    /\ SumSeq([k \in Indices(df) |-> df[k].DominatesCount])
         = SumSeq([k \in Indices(df) |-> Len(df[k].DominatedBy)])

DriveDom(j, i) ==
    dominates_drive(drive_feat.rows[j], drive_feat.rows[i], care_backup, ignore_intraclass)

PPDom(j, i) == dominates_pp(pp_feat.rows[j], pp_feat.rows[i], care_crew)

\* C1: after annotate_drive_obsolescence or annotate_pp_obsolescence, row i
\* is Obsolete iff some other row dominates it, its Dominated By lists
\* exactly the names of those rows in table order, its Dominates (count) is
\* the number of other rows it dominates, and the counts add up to the
\* number of dominator-list entries.
C1_AnnotateTallies ==
    /\ DrivesAnnotated => TalliesAgree(drive_feat.rows, DriveDom)
    /\ PlantsAnnotated => TalliesAgree(pp_feat.rows, PPDom)

\* a drive with two dominators, listed in table order, next to a drive that
\* dominates both others and is not obsolete
C1_Witness ==
    /\ DrivesAnnotated
    /\ Len(drive_feat.rows) = 3
    /\ drive_feat.rows[2].DominatedBy
         = <<unlocked_drives[1].DisplayName, unlocked_drives[3].DisplayName>>
    /\ drive_feat.rows[3].DominatesCount = 2
    /\ ~drive_feat.rows[3].Obsolete
    /\ drive_feat.rows[1].DominatedBy = <<unlocked_drives[3].DisplayName>>

InSeq(x, s) == \E k \in DOMAIN s : s[k] = x

DriveIndices == Indices(drive_feat.rows)

\* the scarce propellant marker of drive i as loaded from the template
Scarce(i) == unlocked_drives[i].scarce

\* row b is at least as good as row a on every numeric dominance dimension
NumericsNoWorse(b, a) ==
    /\ b.Thrust >= a.Thrust
    /\ b.ExhaustVelocity >= a.ExhaustVelocity
    /\ b.PowerUseEfficiency >= a.PowerUseEfficiency
    /\ b.DriveMass <= a.DriveMass

\* C2: a drive that burns scarce propellant never dominates one that does
\* not, whatever the backup and same-class flags are, and annotation never
\* lists it among the dominators of a non-scarce drive.
C2_ScarcityVeto ==
    DrivesAnnotated =>
        \A i, j \in DriveIndices :
            (Scarce(i) /\ ~Scarce(j)) =>
                /\ \A cb \in BOOLEAN, ii \in BOOLEAN :
                      ~dominates_drive(drive_feat.rows[i], drive_feat.rows[j], cb, ii)
                /\ ~InSeq(drive_feat.rows[i].Name, drive_feat.rows[j].DominatedBy)

\* a scarce drive beats a non-scarce drive of another family on thrust, is
\* no worse elsewhere, and still leaves it not obsolete
C2_Witness ==
    /\ DrivesAnnotated
    /\ Len(drive_feat.rows) = 2
    /\ Scarce(1) /\ ~Scarce(2)
    /\ drive_feat.rows[1].Thrust > drive_feat.rows[2].Thrust
    /\ NumericsNoWorse(drive_feat.rows[1], drive_feat.rows[2])
    /\ drive_feat.rows[1].FamilyName # drive_feat.rows[2].FamilyName
    /\ drive_feat.rows[1].HasIdleBackup = drive_feat.rows[2].HasIdleBackup
    /\ ~drive_feat.rows[2].Obsolete

\* no other rule of dominates_drive stops the non-scarce row b from
\* dominating row a: the same-class veto and the backup veto do not apply
NoOtherVeto(b, a) ==
    /\ ~(ignore_intraclass /\ b.FamilyName = a.FamilyName)
    /\ ~(care_backup /\ ~b.HasIdleBackup /\ a.HasIdleBackup)

\* the scarce drive i and the non-scarce drive j stand as the scarcity rule says
ScarceLoses(i, j) ==
    /\ ~DriveDom(i, j)
    /\ DriveDom(j, i)
    /\ drive_feat.rows[i].Obsolete
    /\ InSeq(drive_feat.rows[j].Name, drive_feat.rows[i].DominatedBy)

\* C3 as stated: for a scarce drive A and a non-scarce drive B whose numeric
\* fields are identical or better, A does not dominate B and B dominates A,
\* with no restriction on family, backup mode or flags.
C3_Unrestricted ==
    DrivesAnnotated =>
        \A i, j \in DriveIndices :
            (Scarce(i) /\ ~Scarce(j)
               /\ NumericsNoWorse(drive_feat.rows[j], drive_feat.rows[i]))
                => ScarceLoses(i, j)

\* C3: for a scarce drive A and a non-scarce drive B whose numeric fields
\* are identical or better, A does not dominate B; and B dominates A, so A is
\* annotated obsolete with B among its dominators, unless the same-class veto
\* (ignore_intraclass on, same family) or the backup veto (care_backup on,
\* A has idle backup and B has none) blocks B.
C3_ScarceLosesUnlessVetoed ==
    DrivesAnnotated =>
        \A i, j \in DriveIndices :
            (Scarce(i) /\ ~Scarce(j)
               /\ NumericsNoWorse(drive_feat.rows[j], drive_feat.rows[i]))
                => /\ ~DriveDom(i, j)
                   /\ NoOtherVeto(drive_feat.rows[j], drive_feat.rows[i])
                        => ScarceLoses(i, j)

\* a scarce drive with numeric fields identical to a non-scarce drive's is
\* obsolete because of it
C3_Witness ==
    /\ DrivesAnnotated
    /\ Len(drive_feat.rows) = 2
    /\ Scarce(1) /\ ~Scarce(2)
    /\ NumericsNoWorse(drive_feat.rows[1], drive_feat.rows[2])
    /\ NumericsNoWorse(drive_feat.rows[2], drive_feat.rows[1])
    /\ drive_feat.rows[1].DominatedBy = <<unlocked_drives[2].DisplayName>>
    /\ ~drive_feat.rows[2].Obsolete

PPIndices == Indices(pp_feat.rows)

CombosBuilt == Done /\ ~combos_all.is_none

ComboIndices == Indices(combos_all.rows)

\* the relation R over 1..n has no cycle (of any length, 1 included): every
\* non-empty set of rows has a row that no row of the set dominates
Acyclic(n, R(_, _)) ==
    \A S \in SUBSET (1..n) : S # {} => \E m \in S : \A x \in S : ~R(x, m)

\* C4: the three dominance relations have no cycles: no two records dominate
\* each other and no chain of dominations returns to its start, for drives
\* under every flag setting, for reactors with care_crew on and off, and for
\* combos; so no two annotated rows list each other as dominators.
C4_NoDominanceCycles ==
    /\ DrivesAnnotated =>
          /\ \A cb \in BOOLEAN, ii \in BOOLEAN :
                Acyclic(Len(drive_feat.rows),
                        LAMBDA i, j : dominates_drive(drive_feat.rows[i],
                                                      drive_feat.rows[j], cb, ii))
          /\ \A i, j \in DriveIndices :
                ~(/\ InSeq(drive_feat.rows[i].Name, drive_feat.rows[j].DominatedBy)
                  /\ InSeq(drive_feat.rows[j].Name, drive_feat.rows[i].DominatedBy))
    /\ PlantsAnnotated =>
          /\ \A cc \in BOOLEAN :
                Acyclic(Len(pp_feat.rows),
                        LAMBDA i, j : dominates_pp(pp_feat.rows[i], pp_feat.rows[j], cc))
          /\ \A i, j \in PPIndices :
                ~(/\ InSeq(pp_feat.rows[i].Name, pp_feat.rows[j].DominatedBy)
                  /\ InSeq(pp_feat.rows[j].Name, pp_feat.rows[i].DominatedBy))
    /\ CombosBuilt =>
          Acyclic(Len(combos_all.rows),
                  LAMBDA i, j : combo_dominates(combos_all.rows[i], combos_all.rows[j]))

\* a chain of three drives: the first dominates the second and the third,
\* the second dominates the third, and nothing dominates the first
C4_Witness ==
    /\ DrivesAnnotated
    /\ Len(drive_feat.rows) = 3
    /\ drive_feat.rows[3].DominatedBy
         = <<unlocked_drives[1].DisplayName, unlocked_drives[2].DisplayName>>
    /\ drive_feat.rows[2].DominatedBy = <<unlocked_drives[1].DisplayName>>
    /\ drive_feat.rows[1].DominatedBy = <<>>

\* the template rows of two records carry the same values in every field
\* but the name and the unlock cost, which no dominance relation reads
SameDriveFields(i, j) ==
    [unlocked_drives[i] EXCEPT !.DisplayName = "", !.total_proj_cost = 0]
      = [unlocked_drives[j] EXCEPT !.DisplayName = "", !.total_proj_cost = 0]

SamePPFields(i, j) ==
    [unlocked_pps[i] EXCEPT !.DisplayName = "", !.total_proj_cost = 0]
      = [unlocked_pps[j] EXCEPT !.DisplayName = "", !.total_proj_cost = 0]

SameComboFields(i, j) ==
    [combos_all.rows[i] EXCEPT !.Drive = "", !.PowerPlant = ""]
      = [combos_all.rows[j] EXCEPT !.Drive = "", !.PowerPlant = ""]

\* C5: no drive, reactor or combo dominates itself, and two records with
\* identical field values never dominate each other, under every flag
\* setting; annotation lists neither as a dominator of the other.
C5_Irreflexive ==
    /\ DrivesAnnotated =>
          \A i, j \in DriveIndices :
              SameDriveFields(i, j) =>
                  /\ \A cb \in BOOLEAN, ii \in BOOLEAN :
                        ~dominates_drive(drive_feat.rows[i], drive_feat.rows[j], cb, ii)
                  /\ ~InSeq(drive_feat.rows[i].Name, drive_feat.rows[j].DominatedBy)
    /\ PlantsAnnotated =>
          \A i, j \in PPIndices :
              SamePPFields(i, j) =>
                  /\ \A cc \in BOOLEAN :
                        ~dominates_pp(pp_feat.rows[i], pp_feat.rows[j], cc)
                  /\ ~InSeq(pp_feat.rows[i].Name, pp_feat.rows[j].DominatedBy)
    /\ CombosBuilt =>
          \A i, j \in ComboIndices :
              SameComboFields(i, j) =>
                  ~combo_dominates(combos_all.rows[i], combos_all.rows[j])

\* two reactors equal in every field but the name, next to a third that
\* both dominate: neither of the two is obsolete
C5_Witness ==
    /\ PlantsAnnotated
    /\ Len(pp_feat.rows) = 3
    /\ SamePPFields(1, 2)
    /\ ~pp_feat.rows[1].Obsolete
    /\ ~pp_feat.rows[2].Obsolete
    /\ pp_feat.rows[3].DominatedBy = <<"p1", "p2">>

\* C6: with ignore_intraclass on, a drive never dominates a drive of its own
\* family, whatever their other fields and the backup flag are, and
\* annotation lists no drive of the same family among a drive's dominators.
C6_SameClassVeto ==
    DrivesAnnotated =>
        \A i, j \in DriveIndices :
            unlocked_drives[i].FamilyName = unlocked_drives[j].FamilyName =>
                /\ \A cb \in BOOLEAN :
                      ~dominates_drive(drive_feat.rows[i], drive_feat.rows[j], cb, TRUE)
                /\ ignore_intraclass
                     => ~InSeq(drive_feat.rows[i].Name, drive_feat.rows[j].DominatedBy)

\* with the flag on, a drive with more thrust than a drive of its own
\* family, and no worse elsewhere, leaves it not obsolete
C6_Witness ==
    /\ DrivesAnnotated
    /\ ignore_intraclass
    /\ Len(drive_feat.rows) = 2
    /\ unlocked_drives[1].FamilyName = unlocked_drives[2].FamilyName
    /\ drive_feat.rows[1].Thrust > drive_feat.rows[2].Thrust
    /\ NumericsNoWorse(drive_feat.rows[1], drive_feat.rows[2])
    /\ Scarce(1) = Scarce(2)
    /\ drive_feat.rows[1].HasIdleBackup = drive_feat.rows[2].HasIdleBackup
    /\ ~drive_feat.rows[2].Obsolete

\* drive i has backup power while idle, by its backup mode in the template
IdleBackup(i) == unlocked_drives[i].backup \in {"Always", "DriveIdle"}

SameFamily(i, j) == unlocked_drives[i].FamilyName = unlocked_drives[j].FamilyName

\* C7: with care_backup on, a drive without idle backup (mode neither Always
\* nor DriveIdle) never dominates a drive that has it, whatever the numeric
\* fields; and a drive with idle backup dominates a drive without it as
\* soon as it is no worse on every numeric dimension and neither the
\* scarcity veto nor the same-class veto blocks it, even with all numeric
\* fields equal.  The Dominated By lists of a run with the flag on agree.
C7_BackupDimension ==
    DrivesAnnotated =>
        \A i, j \in DriveIndices :
            /\ (~IdleBackup(i) /\ IdleBackup(j)) =>
                  /\ \A ii \in BOOLEAN :
                        ~dominates_drive(drive_feat.rows[i], drive_feat.rows[j], TRUE, ii)
                  /\ care_backup
                       => ~InSeq(drive_feat.rows[i].Name, drive_feat.rows[j].DominatedBy)
            /\ (/\ IdleBackup(i) /\ ~IdleBackup(j)
                /\ NumericsNoWorse(drive_feat.rows[i], drive_feat.rows[j])
                /\ ~(Scarce(i) /\ ~Scarce(j))) =>
                  /\ \A ii \in BOOLEAN :
                        ~(ii /\ SameFamily(i, j)) =>
                            dominates_drive(drive_feat.rows[i], drive_feat.rows[j], TRUE, ii)
                  /\ (care_backup /\ ~(ignore_intraclass /\ SameFamily(i, j)))
                       => InSeq(drive_feat.rows[i].Name, drive_feat.rows[j].DominatedBy)

\* with care_backup on, two drives equal on every numeric field and on the
\* scarce marker: the one with backup mode DriveIdle makes the other obsolete
C7_Witness ==
    /\ DrivesAnnotated
    /\ care_backup
    /\ Len(drive_feat.rows) = 2
    /\ unlocked_drives[1].backup = "DriveIdle"
    /\ unlocked_drives[2].backup = "DriveActive"
    /\ NumericsNoWorse(drive_feat.rows[1], drive_feat.rows[2])
    /\ NumericsNoWorse(drive_feat.rows[2], drive_feat.rows[1])
    /\ Scarce(1) = Scarce(2)
    /\ drive_feat.rows[2].DominatedBy = <<unlocked_drives[1].DisplayName>>
    /\ ~drive_feat.rows[1].Obsolete

\* reactor a is no worse than reactor b on every dimension compared
PPNoWorse(a, b, cc) ==
    /\ a.maxOutput_GW >= b.maxOutput_GW
    /\ a.efficiency >= b.efficiency
    /\ (b.generalUse_bool => a.generalUse_bool)
    /\ a.specificPower_tGW <= b.specificPower_tGW
    /\ (cc => a.crew <= b.crew)

\* a is no worse than b and differs from b on a dimension compared
PPBetter(a, b, cc) == PPNoWorse(a, b, cc) /\ ~PPNoWorse(b, a, cc)

\* C8: dominates_pp(a, b, care_crew) holds exactly when a is >= b on max
\* output, efficiency and general use, <= b on specific power and, under
\* care_crew, on crew, and strictly better on one of those dimensions.  With
\* care_crew on a reactor with more crew never dominates one with less; with
\* care_crew off the result does not depend on crew.  A reactor is annotated
\* obsolete exactly when another reactor of the selection is better so.
C8_DominatesPPExact ==
    PlantsAnnotated =>
        /\ \A i, j \in PPIndices :
              /\ \A cc \in BOOLEAN :
                    dominates_pp(pp_feat.rows[i], pp_feat.rows[j], cc)
                      <=> PPBetter(unlocked_pps[i], unlocked_pps[j], cc)
              /\ unlocked_pps[i].crew > unlocked_pps[j].crew
                   => ~dominates_pp(pp_feat.rows[i], pp_feat.rows[j], TRUE)
              /\ \A x \in Levels, y \in Levels :
                    dominates_pp([pp_feat.rows[i] EXCEPT !.Crew = x],
                                 [pp_feat.rows[j] EXCEPT !.Crew = y], FALSE)
                      = dominates_pp(pp_feat.rows[i], pp_feat.rows[j], FALSE)
        /\ \A j \in PPIndices :
              pp_feat.rows[j].Obsolete
                <=> \E i \in PPIndices \ {j} :
                       PPBetter(unlocked_pps[i], unlocked_pps[j], care_crew)

\* with care_crew on, two reactors that differ in crew only: the one with
\* the smaller crew makes the other obsolete
C8_Witness ==
    /\ PlantsAnnotated
    /\ care_crew
    /\ Len(pp_feat.rows) = 2
    /\ unlocked_pps[1].crew < unlocked_pps[2].crew
    /\ [unlocked_pps[1] EXCEPT !.crew = 0, !.DisplayName = "", !.total_proj_cost = 0]
         = [unlocked_pps[2] EXCEPT !.crew = 0, !.DisplayName = "", !.total_proj_cost = 0]
    /\ pp_feat.rows[2].DominatedBy = <<"p1">>
    /\ ~pp_feat.rows[1].Obsolete

\* the annotated table of the selection with the thrust of drive k set to t
WithThrust(k, t) ==
    annotate_drive_obsolescence(
        build_drive_features([unlocked_drives EXCEPT ![k].thrust_N = t]),
        care_backup, ignore_intraclass)

\* C9: raising the thrust of one drive, all its other fields, the other
\* drives and the flags unchanged, never lowers its Dominates (count), and
\* every drive that listed it as a dominator still does.
C9_ThrustMonotone ==
    DrivesAnnotated =>
        \A k \in DriveIndices, t \in ThrustVals :
            t > unlocked_drives[k].thrust_N =>
                LET out == WithThrust(k, t)
                IN  /\ out[k].DominatesCount >= drive_feat.rows[k].DominatesCount
                    /\ \A j \in DriveIndices :
                          InSeq(drive_feat.rows[k].Name, drive_feat.rows[j].DominatedBy)
                            => InSeq(drive_feat.rows[k].Name, out[j].DominatedBy)

\* the first drive dominates the second only; with the thrust of the third
\* it dominates both
C9_Witness ==
    /\ DrivesAnnotated
    /\ Len(drive_feat.rows) = 3
    /\ drive_feat.rows[1].Thrust < drive_feat.rows[3].Thrust
    /\ drive_feat.rows[1].DominatesCount = 1
    /\ InSeq(unlocked_drives[1].DisplayName, drive_feat.rows[2].DominatedBy)
    /\ WithThrust(1, drive_feat.rows[3].Thrust)[1].DominatesCount = 2

\* the table df with every row flagged obsolete
AllObsolete(df) == [k \in DOMAIN df |-> [df[k] EXCEPT !.Obsolete = TRUE]]

\* C10: every combo build_valid_drive_pp_combos emits pairs a drive whose
\* row in the drive table has Obsolete = FALSE with a reactor whose row in
\* the reactor table has Obsolete = FALSE; on a table without non-obsolete
\* rows the output is empty.
C10_OnlyNonObsoletePaired ==
    CombosBuilt =>
        /\ \A c \in ComboIndices :
              /\ \A d \in DriveIndices :
                    drive_feat.rows[d].Name = combos_all.rows[c].Drive
                      => ~drive_feat.rows[d].Obsolete
              /\ \A q \in PPIndices :
                    pp_feat.rows[q].Name = combos_all.rows[c].PowerPlant
                      => ~pp_feat.rows[q].Obsolete
        /\ build_valid_drive_pp_combos(AllObsolete(drive_feat.rows), pp_feat.rows,
                                       ref_payload_tons, ref_propellant_tons) = <<>>
        /\ build_valid_drive_pp_combos(drive_feat.rows, AllObsolete(pp_feat.rows),
                                       ref_payload_tons, ref_propellant_tons) = <<>>

\* the obsolete second drive fits the first reactor, which is not obsolete
\* and has output, yet the only combo emitted pairs the first drive with it
C10_Witness ==
    /\ CombosBuilt
    /\ drive_feat.rows[2].Obsolete
    /\ ~pp_feat.rows[1].Obsolete
    /\ pp_feat.rows[2].Obsolete
    /\ pp_feat.rows[1].MaxOutput > 0
    /\ drive_compatible_with_pp(drive_feat.rows[2], pp_feat.rows[1])
    /\ Len(combos_all.rows) = 1
    /\ combos_all.rows[1].Drive = unlocked_drives[1].DisplayName
    /\ combos_all.rows[1].PowerPlant = unlocked_pps[1].DisplayName

\* --- class compatibility of the emitted pairs ---

\* the tag with its first four characters ("any_") removed
Suffix(req) == SubSeq(req, 5, Len(req))

\* the matching rule on normalized tags, given the tags that match everything
MatchesRule(req, plant, generic) ==
    \/ req = <<>>
    \/ req \in generic
    \/ StartsWith(req, STR_any_) /\ IsSubstring(Suffix(req), plant)
    \/ req = plant
    \/ IsSubstring(req, plant)

AnyReactorOnly == {STR_any_reactor}

GenericTags == {STR_any, STR_any_general, STR_any_reactor, STR_any_power_plant}

EmittedMatch(generic) ==
    CombosBuilt =>
        \A c \in ComboIndices :
            MatchesRule(_normalize_class_name(combos_all.rows[c].RequiresPowerPlantClass),
                        _normalize_class_name(combos_all.rows[c].PowerPlantClass),
                        generic)

\* C11 as stated: every emitted pair satisfies the matching rule in which
\* only the empty tag and "any reactor" match everything
C11_AnyReactorOnly == EmittedMatch(AnyReactorOnly)

\* C11: every pair emitted by build_valid_drive_pp_combos satisfies the
\* matching rule on the normalized tags, where the empty tag and the generic
\* tags any, any_general, any_reactor and any_power_plant match everything,
\* any_<suffix> matches a class containing <suffix>, and any other tag matches
\* a class it equals or is a substring of; no failing pair is emitted
C11_EmittedPairsMatch == EmittedMatch(GenericTags)

\* a drive that requires "Any_Fus" is emitted with the "Fusion" reactor, and
\* in another run a drive that requires "Any_General" is emitted with it too
C11_Witness ==
    /\ CombosBuilt
    /\ Len(combos_all.rows) = 1
    /\ combos_all.rows[1].PowerPlantClass = STR_Fusion
    /\ combos_all.rows[1].RequiresPowerPlantClass = STR_Any_Fus

\* --- the reactor without a class ---

Emitted(d, q) ==
    \E c \in ComboIndices :
        /\ combos_all.rows[c].Drive = drive_feat.rows[d].Name
        /\ combos_all.rows[c].PowerPlant = pp_feat.rows[q].Name

\* no drive whose normalized requirement is outside the set exempt is
\* compatible, or emitted, with a reactor whose normalized class is empty
EmptyClassRejected(exempt) ==
    CombosBuilt =>
        \A d \in DriveIndices, q \in PPIndices :
            (/\ _normalize_class_name(pp_feat.rows[q].Class) = <<>>
             /\ _normalize_class_name(drive_feat.rows[d].RequiredPowerPlant)
                    \notin exempt)
              => /\ ~drive_compatible_with_pp(drive_feat.rows[d], pp_feat.rows[q])
                 /\ ~Emitted(d, q)

\* C12 as stated: every non-empty requirement is refused by a reactor whose
\* class is empty
C12_EveryNonEmptyTag == EmptyClassRejected({<<>>})

\* C12: drive_compatible_with_pp returns false whenever the reactor's
\* normalized class is empty and the drive's normalized requirement is
\* non-empty and not one of the generic tags any, any_general, any_reactor,
\* any_power_plant
C12_EmptyClassRejected == EmptyClassRejected({<<>>} \cup GenericTags)

\* the reactor has no class and output, the drive requires "Any_" (or
\* another non-generic tag), both are non-obsolete, and nothing is emitted
C12_Witness ==
    /\ CombosBuilt
    /\ Len(drive_feat.rows) = 1
    /\ Len(pp_feat.rows) = 1
    /\ pp_feat.rows[1].Class = <<>>
    /\ pp_feat.rows[1].MaxOutput > 0
    /\ drive_feat.rows[1].RequiredPowerPlant = STR_Any_Only
    /\ combos_all.rows = <<>>

\* --- power: the zero-output drop and the sufficiency flag ---

\* thrust (N) times exhaust velocity (km/s): the drive's power in units of
\* half a kilowatt, so that 1 GW of reactor output is worth 2,000,000
DrawsPower(d) == drive_feat.rows[d].Thrust * drive_feat.rows[d].ExhaustVelocity > 0

Covers(q, d) ==
    pp_feat.rows[q].MaxOutput * 2000000
        >= drive_feat.rows[d].Thrust * drive_feat.rows[d].ExhaustVelocity

\* C13: a combo whose reactor has max output 0 while the drive's power is
\* above 0 never appears in the builder's output: the pair is dropped
C13_ZeroOutputDropped ==
    CombosBuilt =>
        /\ \A c \in ComboIndices :
              ~(/\ combos_all.rows[c].PPMaxOutput = RZero
                /\ combos_all.rows[c].DriveThrust * combos_all.rows[c].DriveEV > 0)
        /\ \A d \in DriveIndices, q \in PPIndices :
              (pp_feat.rows[q].MaxOutput = 0 /\ DrawsPower(d)) => ~Emitted(d, q)

\* a non-obsolete drive that draws power fits a non-obsolete reactor with no
\* output, and the pair is not emitted
C13_Witness ==
    /\ CombosBuilt
    /\ \E d \in DriveIndices, q \in PPIndices :
          /\ ~drive_feat.rows[d].Obsolete
          /\ ~pp_feat.rows[q].Obsolete
          /\ drive_compatible_with_pp(drive_feat.rows[d], pp_feat.rows[q])
          /\ pp_feat.rows[q].MaxOutput = 0
          /\ DrawsPower(d)
          /\ ~Emitted(d, q)

\* C14: power sufficiency is flagged, not filtered: every class-compatible
\* pair of a non-obsolete drive and a non-obsolete reactor with positive max
\* output is emitted, also when the output is below the drive's power, and
\* a combo's "Reactor Enough Power?" is true exactly when the reactor's max
\* output is at least the drive's power or the drive's power is 0
C14_FlaggedNotFiltered ==
    CombosBuilt =>
        \A d \in DriveIndices, q \in PPIndices :
            /\ (/\ ~drive_feat.rows[d].Obsolete
                /\ ~pp_feat.rows[q].Obsolete
                /\ drive_compatible_with_pp(drive_feat.rows[d], pp_feat.rows[q])
                /\ pp_feat.rows[q].MaxOutput > 0)
                 => Emitted(d, q)
            /\ \A c \in ComboIndices :
                  (/\ combos_all.rows[c].Drive = drive_feat.rows[d].Name
                   /\ combos_all.rows[c].PowerPlant = pp_feat.rows[q].Name)
                    => (combos_all.rows[c].ReactorEnoughPower
                          <=> (Covers(q, d) \/ ~DrawsPower(d)))

\* a pair whose reactor has output, but less than the drive draws, is
\* emitted with the flag false
C14_Witness ==
    /\ CombosBuilt
    /\ \E d \in DriveIndices, q \in PPIndices, c \in ComboIndices :
          /\ combos_all.rows[c].Drive = drive_feat.rows[d].Name
          /\ combos_all.rows[c].PowerPlant = pp_feat.rows[q].Name
          /\ pp_feat.rows[q].MaxOutput > 0
          /\ ~Covers(q, d)
          /\ ~combos_all.rows[c].ReactorEnoughPower

\* --- mission feasibility search ---

Args == search_call.args

\* the call has been made and has returned a table
Returned == search_call.called /\ ~feas_df.raised

RowIndices == 1..Len(feas_df.rows)

PassedIndices == 1..Len(Args.combos_df)

\* row r of the result is the row of combo c of the table passed
RowOf(r, c) ==
    /\ feas_df.rows[r].Drive = Args.combos_df[c].Drive
    /\ feas_df.rows[r].PowerPlant = Args.combos_df[c].PowerPlant

Lower(a, b) == IF a <= b THEN a ELSE b

Higher(a, b) == IF a <= b THEN b ELSE a

\* thrust that counts for the acceleration constraint of the call
EffectiveThrust(c) ==
    IF Args.accel_type = STR_Combat
    THEN Args.combos_df[c].DriveThrust * Args.combos_df[c].DriveCombatThrustMultiplier
    ELSE Args.combos_df[c].DriveThrust

\* drive mass + reactor mass
BareMass(c) == RAdd(RInt(Args.combos_df[c].DriveMass), Args.combos_df[c].PPReactorMass)

DryMass(r, c) == RAdd(BareMass(c), feas_df.rows[r].PayloadMass)

WetMass(r, c) == RAdd(DryMass(r, c), feas_df.rows[r].PropellantMass)

\* R = exp(target delta-v / ev), the target counted in units of ln 2 km/s
TargetRatio(c) == RInt(2 ^ (Args.dv_target_kps \div Args.combos_df[c].DriveEV))

\* the payload ceilings of the acceleration and of the propellant bound
CeilingByAccel(c) ==
    RSub(RDiv(RInt(EffectiveThrust(c)),
              RMul(RMul(Args.accel_target_g, RInt(9810)), TargetRatio(c))),
         BareMass(c))

CeilingByProp(c, prop_max) ==
    RSub(RDiv(RInt(prop_max), RSub(TargetRatio(c), RInt(1))), BareMass(c))

\* every returned row meets the constraints for the payload min_payload and
\* the propellant range [prop_min, prop_max], and belongs to one usable combo
RowsMeetConstraints(min_payload, prop_min, prop_max) ==
    Returned =>
        /\ \A r \in RowIndices :
              \E c \in PassedIndices :
                  /\ RowOf(r, c)
                  /\ Args.combos_df[c].DriveThrust > 0
                  /\ Args.combos_df[c].DriveEV > 0
                  /\ Args.combos_df[c].ReactorEnoughPower
                  /\ feas_df.rows[r].PayloadMass = RInt(min_payload)
                  /\ RLe(RInt(prop_min), feas_df.rows[r].PropellantMass)
                  /\ RLe(feas_df.rows[r].PropellantMass, RInt(prop_max))
                  /\ RLt(RZero, WetMass(r, c))
                  /\ feas_df.rows[r].ResultAccel
                        = RDiv(RInt(EffectiveThrust(c)), RMul(WetMass(r, c), RInt(9810)))
                  /\ RLe(Args.accel_target_g, feas_df.rows[r].ResultAccel)
                  /\ RLe(RInt(min_payload),
                         RMin(CeilingByAccel(c), CeilingByProp(c, prop_max)))
        /\ \A r1, r2 \in RowIndices :
              (/\ feas_df.rows[r1].Drive = feas_df.rows[r2].Drive
               /\ feas_df.rows[r1].PowerPlant = feas_df.rows[r2].PowerPlant) => r1 = r2

\* C15 as stated: the constraints hold for the payload_min, prop_min and
\* prop_max the caller passed
C15_BoundsAsPassed ==
    search_call.called =>
        RowsMeetConstraints(Args.payload_min, Args.prop_min, Args.prop_max)

\* C15: every row returned by mission_feasibility_search meets all the
\* constraints together: payload equals the lower of payload_min and
\* payload_max (payload_min itself when the range is given in order),
\* propellant lies between the lower and the higher of prop_min and prop_max,
\* Result Accel (effective thrust over the actual wet mass, in g) is at least
\* the target, and the payload ceiling min(by accel, by prop) is at least
\* that payload; at most one row per combo, and only for combos with
\* positive thrust, positive exhaust velocity and enough power
C15_RowsFeasible ==
    search_call.called =>
        RowsMeetConstraints(Lower(Args.payload_min, Args.payload_max),
                            Lower(Args.prop_min, Args.prop_max),
                            Higher(Args.prop_min, Args.prop_max))

\* a call on a table of two combos, one of them without enough power or
\* without thrust, returns exactly one row
C15_Witness ==
    /\ Returned
    /\ Len(Args.combos_df) = 2
    /\ Len(feas_df.rows) = 1
    /\ \E c \in PassedIndices :
          ~Args.combos_df[c].ReactorEnoughPower \/ Args.combos_df[c].DriveThrust = 0
    /\ RLt(RZero, feas_df.rows[1].PropellantMass)

\* C16: mass-ratio consistency: for every returned row, with dry = drive
\* mass + reactor mass + payload and wet = dry + propellant, wet / dry
\* equals R = exp(target delta-v / ev), and the reported Result Delta-v
\* equals the target
C16_MassRatio ==
    Returned =>
        \A r \in RowIndices, c \in PassedIndices :
            RowOf(r, c) =>
                /\ RLt(RZero, DryMass(r, c))
                /\ RDiv(WetMass(r, c), DryMass(r, c)) = TargetRatio(c)
                /\ feas_df.rows[r].ResultDeltaV = Args.dv_target_kps

\* one call returns a row with mass ratio 8 (ev 1) and a row with mass
\* ratio 2 (ev 3), both with propellant on board
C16_Witness ==
    /\ Returned
    /\ Len(feas_df.rows) = 2
    /\ \E c1, c2 \in PassedIndices :
          /\ RowOf(1, c1) /\ TargetRatio(c1) = RInt(8)
          /\ RowOf(2, c2) /\ TargetRatio(c2) = RInt(2)
          /\ WetMass(1, c1) = RMul(RInt(8), DryMass(1, c1))
          /\ WetMass(2, c2) = RMul(RInt(2), DryMass(2, c2))

\* C17: mission_feasibility_search returns an empty result, without
\* raising, for any combo table when the target delta-v is <= 0 or the
\* target acceleration is <= 0
C17_NonPositiveTargets ==
    (/\ search_call.called
     /\ (Args.dv_target_kps <= 0 \/ Args.accel_target_g[1] <= 0))
      => /\ ~feas_df.raised
         /\ feas_df.rows = <<>>

\* a call with a positive delta-v and a target acceleration of 0, on a table
\* that holds a powered combo with thrust and exhaust velocity
C17_Witness ==
    /\ search_call.called
    /\ Args.dv_target_kps > 0
    /\ Args.accel_target_g = RZero
    /\ feas_df.rows = <<>>
    /\ Args.combos_df # <<>>
    /\ \E c \in PassedIndices :
          /\ Args.combos_df[c].ReactorEnoughPower
          /\ Args.combos_df[c].DriveThrust > 0
          /\ Args.combos_df[c].DriveEV = 1
          /\ Args.combos_df[c].DriveMass = 1000

\* the combo has no mass of its own: drive mass + reactor mass = 0
Massless(c) == BareMass(c) = RZero

\* C18: division by zero and non-finite intermediates are treated as
\* infeasibility, never as exceptions: for positive targets the search
\* completes without raising for every combo, and a combo with an
\* overflowing mass ratio, with exhaust velocity or thrust 0, or with zero
\* dry mass (drive mass + reactor mass + min_payload = 0) is absent from
\* the result
C18_NeverRaises ==
    (/\ search_call.called
     /\ Args.dv_target_kps > 0
     /\ Args.accel_target_g[1] > 0)
      => /\ ~feas_df.raised
         /\ \A r \in RowIndices, c \in PassedIndices :
               RowOf(r, c) =>
                   /\ Args.combos_df[c].DriveThrust # 0
                   /\ Args.combos_df[c].DriveEV # 0
                   /\ Args.dv_target_kps \div Args.combos_df[c].DriveEV <= 1024
                   /\ ~(Massless(c) /\ Lower(Args.payload_min, Args.payload_max) = 0)

\* the calls that end in ZeroDivisionError are exactly the calls with
\* positive targets, minimum payload 0 and a massless combo that has enough
\* power, thrust and exhaust velocity
C18_RaisesOnZeroDryMass ==
    search_call.called =>
        (feas_df.raised
           <=> /\ Args.dv_target_kps > 0
               /\ Args.accel_target_g[1] > 0
               /\ Lower(Args.payload_min, Args.payload_max) = 0
               /\ \E c \in PassedIndices :
                     /\ Massless(c)
                     /\ Args.combos_df[c].ReactorEnoughPower
                     /\ EffectiveThrust(c) > 0
                     /\ Args.combos_df[c].DriveEV > 0
                     /\ Args.dv_target_kps \div Args.combos_df[c].DriveEV <= 1024)

\* the call that raises: positive targets, minimum payload 0, and a combo
\* of a massless drive and a massless reactor with thrust and enough power
C18_Witness ==
    /\ search_call.called
    /\ feas_df.raised
    /\ Args.dv_target_kps = 3
    /\ Args.accel_target_g = OneInHundred
    /\ Args.payload_min = 0
    /\ \E c \in PassedIndices :
          /\ Args.combos_df[c].DriveMass = 0
          /\ Args.combos_df[c].PPReactorMass = RZero
          /\ Args.combos_df[c].DriveThrust > 0
          /\ Args.combos_df[c].DriveEV = 1
          /\ Args.combos_df[c].ReactorEnoughPower

\* --- the order of the pipeline ---

\* the mission button has been pressed and the search has been called
MissionSearched == pc = "searched" /\ search_call.called

\* the combo was built from an unlocked drive and an unlocked reactor that
\* the annotators left non-obsolete
FromNonObsolete(combo) ==
    /\ \E d \in DriveIndices :
          /\ drive_feat.rows[d].Name = combo.Drive
          /\ ~drive_feat.rows[d].Obsolete
          /\ \E u \in DOMAIN unlocked_drives :
                unlocked_drives[u].DisplayName = combo.Drive
    /\ \E q \in PPIndices :
          /\ pp_feat.rows[q].Name = combo.PowerPlant
          /\ ~pp_feat.rows[q].Obsolete
          /\ \E u \in DOMAIN unlocked_pps :
                unlocked_pps[u].DisplayName = combo.PowerPlant

\* C19: pipeline order: in every run of main() and for every setting of the
\* session flags, each combo passed to mission_feasibility_search was built
\* from an unlocked, non-obsolete drive and reactor, has "Reactor Enough
\* Power?" true, and is not flagged "Combo Obsolete"
C19_PipelineOrder ==
    MissionSearched =>
        \A c \in PassedIndices :
            /\ FromNonObsolete(Args.combos_df[c])
            /\ Args.combos_df[c].ReactorEnoughPower
            /\ ~Args.combos_df[c].ComboObsolete

\* what holds under every setting: the combos passed come from non-obsolete
\* parts and have enough power, and none is flagged "Combo Obsolete" while
\* "Hide dominated combos" is ticked
C19_ExceptUnhidden ==
    MissionSearched =>
        \A c \in PassedIndices :
            /\ FromNonObsolete(Args.combos_df[c])
            /\ Args.combos_df[c].ReactorEnoughPower
            /\ hide_combo_obsolete => ~Args.combos_df[c].ComboObsolete

\* "Hide dominated combos" is unticked, the button is pressed, and a combo
\* flagged "Combo Obsolete" is among the combos passed to the search, while
\* a combo without enough power was built and held back
C19_Witness ==
    /\ MissionSearched
    /\ ~hide_combo_obsolete
    /\ \E c \in PassedIndices : Args.combos_df[c].ComboObsolete
    /\ \E c \in ComboIndices : ~combos_all.rows[c].ReactorEnoughPower

\* --- purity of the core operations ---

Repeated == repeat_call.fn # "none"

\* the tables passed are as they were, and the second call returns what the
\* first returned
UnchangedAndEqual ==
    /\ repeat_call.after = repeat_call.before
    /\ repeat_call.second = repeat_call.first

\* C20: the core operations are pure: the three annotators (including
\* annotate_combo_obsolescence on an empty combo table), the builder and the
\* search leave the tables passed to them unchanged and return equal outputs
\* on repeated calls
C20_Pure == Repeated => UnchangedAndEqual

\* every core function but annotate_combo_obsolescence on an empty table
\* leaves its arguments unchanged, and all of them return equal outputs on
\* repeated calls
C20_PureButEmptyCombos ==
    Repeated =>
        /\ repeat_call.second = repeat_call.first
        /\ (repeat_call.after # repeat_call.before
              <=> /\ repeat_call.fn = "annotate_combo_obsolescence"
                  /\ repeat_call.before[1].rows = <<>>)

\* annotate_combo_obsolescence is called on the empty table of the combos
\* with enough power, taken from a builder output that has rows
C20_Witness ==
    /\ Repeated
    /\ repeat_call.fn = "annotate_combo_obsolescence"
    /\ combos_all.rows # <<>>
    /\ repeat_call.before[1].rows = <<>>
    /\ "ComboObsolete" \notin repeat_call.before[1].columns
    /\ "ComboObsolete" \in repeat_call.after[1].columns

\* --- the worked example ---

\* floor(n * 10^k / d) and the remainder, by long division (d < 2 * 10^8)
RECURSIVE DivScaled(_, _, _)
DivScaled(n, d, k) ==
    IF k = 0 THEN <<n \div d, n % d>>
    ELSE LET p == DivScaled(n, d, k - 1)
         IN  <<p[1] * 10 + (p[2] * 10) \div d, (p[2] * 10) % d>>

\* fixed point with 8 decimals: a value x in [0, 1) is floor(x * 10^8)
Half == 10 ^ 4

\* a * b, rounded down; the result is below the true product by less than
\* 2 units when a and b are exact
MulLo(a, b) ==
    (a \div Half) * (b \div Half)
        + ((a \div Half) * (b % Half) + (a % Half) * (b \div Half)) \div Half

\* z + z^3/3 + ... + z^11/11 = atanh(z) without its tail, every step rounded
\* down, for z = (r - 1) / (r + 1) of the ratio r = n / d
AtanhLo(n, d) ==
    LET z   == DivScaled(n - d, n + d, 8)[1]
        z2  == MulLo(z, z)
        z3  == MulLo(z, z2)
        z5  == MulLo(z3, z2)
        z7  == MulLo(z5, z2)
        z9  == MulLo(z7, z2)
        z11 == MulLo(z9, z2)
    IN  z + z3 \div 3 + z5 \div 5 + z7 \div 7 + z9 \div 9 + z11 \div 11

\* ev * ln(n / d) in units of 10^-6 km/s lies in
\* [DvMicroLo, DvMicroLo + 2 * ev] for 1 < n / d <= 2: ln r = 2 atanh(z); the
\* roundings above lose fewer than 40 units of 10^-8 and the tail of the
\* series, below z^13, fewer than 10, so 2 atanh(z) is short by less than
\* 10^-6, and the division by 100 drops less than another 10^-6
DvMicroLo(dv) == dv.ev * ((2 * AtanhLo(dv.ratio[1], dv.ratio[2])) \div 100)

\* the value shown with two decimals, given in hundredths
ShownAs(dv, hundredths) ==
    /\ DvMicroLo(dv) >= hundredths * 10000 - 5000
    /\ DvMicroLo(dv) + 2 * dv.ev <= hundredths * 10000 + 5000

ExampleBuilt ==
    /\ CombosBuilt
    /\ unlocked_drives = <<ExampleDrive>>
    /\ unlocked_pps = <<ExampleReactor>>

\* the masses and the acceleration of the example, and its delta-v shown
\* with two decimals as hundredths / 100
ExampleYields(hundredths) ==
    ExampleBuilt =>
        /\ Len(combos_all.rows) = 1
        /\ combos_all.rows[1].DrivePower = <<1, 40>>
        /\ combos_all.rows[1].PPReactorMass = <<1, 20>>
        /\ combos_all.rows[1].RefDryMass = <<20101, 20>>
        /\ combos_all.rows[1].RefWetMass = <<40101, 20>>
        /\ combos_all.rows[1].RefDeltaV = [ev |-> 50, ratio |-> <<40101, 20101>>]
        /\ ShownAs(combos_all.rows[1].RefDeltaV, hundredths)
        \* 5.08e-5 g to three digits: floor(accel * 10^8) is 5075 .. 5084
        /\ DivScaled(combos_all.rows[1].RefCruiseAccel[1],
                     combos_all.rows[1].RefCruiseAccel[2], 8)[1] \in 5075..5084

\* C21 as stated: the delta-v of the example is approximately 34.59 km/s
C21_DeltaV3459 == ExampleYields(3459)

\* C21: for drive X (1000 N, 50 km/s, 5 t, hence 0.025 GW) with a compatible
\* reactor Y (1 GW, 2 t/GW) and reference payload and propellant of 1000 t
\* each, build_valid_drive_pp_combos yields reactor mass 0.05 t, dry mass
\* 1005.05 t, wet mass 2005.05 t, delta-v 50 x ln(2005.05 / 1005.05), which
\* is approximately 34.53 km/s, and cruise acceleration approximately
\* 5.08e-5 g
C21_WorkedExample == ExampleYields(3453)

\* the example has been built: one combo, with enough power
C21_Witness ==
    /\ ExampleBuilt
    /\ Len(combos_all.rows) = 1
    /\ combos_all.rows[1].ReactorEnoughPower
    /\ combos_all.rows[1].DriveThrust = 1000
    /\ combos_all.rows[1].DriveEV = 50

\* --- records without populated dimensions ---

\* every compared field of the drive is at the loader's default
UnpopulatedDrive(row) ==
    /\ row.Thrust = 0
    /\ row.ExhaustVelocity = 0
    /\ row.PowerUseEfficiency = 0
    /\ row.DriveMass = 0
    /\ ~row.HasIdleBackup
    /\ ~row.UsesScarcePropellant

UnpopulatedPP(row) ==
    /\ row.MaxOutput = 0
    /\ row.Efficiency = 0
    /\ row.SpecificPower = 0
    /\ row.Crew = 0
    /\ ~row.GeneralUse

\* the row is reported as not obsolete, dominating nothing
Untouched(row) == ~row.Obsolete /\ row.DominatesCount = 0

\* C22: a record with no comparison dimension populated (every compared
\* field missing or at the loader's default 0) neither dominates nor is
\* dominated by any other record in any population and under any
\* configuration: the annotators report it as not obsolete with
\* dominates-count 0
C22_UnpopulatedUntouched ==
    /\ DrivesAnnotated =>
          \A k \in DriveIndices :
              UnpopulatedDrive(drive_feat.rows[k]) => Untouched(drive_feat.rows[k])
    /\ PlantsAnnotated =>
          \A k \in PPIndices :
              UnpopulatedPP(pp_feat.rows[k]) => Untouched(pp_feat.rows[k])

\* an unpopulated drive is flagged obsolete: its only dominator differs from
\* it in thrust alone
C22_Witness ==
    /\ DrivesAnnotated
    /\ Len(drive_feat.rows) = 2
    /\ UnpopulatedDrive(drive_feat.rows[1])
    /\ drive_feat.rows[1].Obsolete
    /\ drive_feat.rows[2].Thrust > 0
    /\ drive_feat.rows[2].DriveMass = 0
    /\ drive_feat.rows[2].ExhaustVelocity = 0
    /\ drive_feat.rows[2].PowerUseEfficiency = 0

\* an unpopulated record is never an error, and two unpopulated records
\* leave each other alone
C22_UnpopulatedPairs ==
    DrivesAnnotated =>
        \A j, k \in DriveIndices :
            (/\ UnpopulatedDrive(drive_feat.rows[j])
             /\ UnpopulatedDrive(drive_feat.rows[k]))
              => ~InSeq(drive_feat.rows[j].Name, drive_feat.rows[k].DominatedBy)

\* the reactor output a combo uses, recomputed from its drive power and the
\* reactor's maximum output
OutputUsed(c) ==
    IF ~RLt(RZero, c.DrivePower) THEN RZero
    ELSE IF RLe(c.DrivePower, c.PPMaxOutput) THEN c.DrivePower
    ELSE c.PPMaxOutput

\* C25: every emitted combo uses min(drive power, reactor maximum output) of
\* the reactor when the drive draws power and 0 otherwise, so the output used
\* lies between 0 and the maximum output; the reactor mass is the specific
\* power times the output used, the dry mass is reference payload + drive
\* mass + reactor mass, the wet mass is dry mass + reference propellant, and
\* a combo with enough power uses exactly the drive power
C25_ReferenceMasses ==
    CombosBuilt =>
        \A k \in ComboIndices :
            LET c == combos_all.rows[k]
            IN  /\ c.PPOutputUsed = OutputUsed(c)
                /\ RLe(RZero, c.PPOutputUsed)
                /\ RLe(c.PPOutputUsed, c.PPMaxOutput)
                /\ c.PPReactorMass
                     = Rat(c.PPSpecificPower[1] * c.PPOutputUsed[1],
                           c.PPSpecificPower[2] * c.PPOutputUsed[2])
                /\ c.RefDryMass
                     = Rat((ref_payload_tons + c.DriveMass) * c.PPReactorMass[2]
                             + c.PPReactorMass[1],
                           c.PPReactorMass[2])
                /\ c.RefWetMass
                     = Rat(c.RefDryMass[1] + ref_propellant_tons * c.RefDryMass[2],
                           c.RefDryMass[2])
                /\ c.ReactorEnoughPower => c.PPOutputUsed = c.DrivePower

\* one combo whose reactor covers a drive that draws power and one whose
\* reactor is too small, each with a reactor mass above zero
C25_Witness ==
    /\ CombosBuilt
    /\ \E k \in ComboIndices :
          LET c == combos_all.rows[k]
          IN  /\ c.ReactorEnoughPower
              /\ RLt(RZero, c.DrivePower)
              /\ RLt(RZero, c.PPReactorMass)
              /\ RLt(c.PPOutputUsed, c.PPMaxOutput)

\* the smaller of the two payload ceilings of combo c
PayloadCeiling(c, prop_max) ==
    IF RLe(CeilingByAccel(c), CeilingByProp(c, prop_max))
    THEN CeilingByAccel(c)
    ELSE CeilingByProp(c, prop_max)

\* propellant that combo c needs to reach the target with this payload
PropellantFor(c, payload) ==
    RMul(RAdd(BareMass(c), payload), RSub(TargetRatio(c), RInt(1)))

\* the heaviest wet mass that combo c pushes at the target acceleration:
\* effective thrust / (9.81 m/s2 * 1000 kg/t * target in g)
HeaviestWet(c) == RDiv(RInt(EffectiveThrust(c)), RMul(Args.accel_target_g, RInt(9810)))

\* x + y over the least common denominator
WideAdd(x, y) ==
    LET g == GCD(x[2], y[2])
    IN  Rat(x[1] * (y[2] \div g) + y[1] * (x[2] \div g), x[2] * (y[2] \div g))

\* wet mass of combo c with this payload and the propellant it needs
WetFor(c, payload) == WideAdd(RAdd(BareMass(c), payload), PropellantFor(c, payload))

\* a / b <= c / d for b, d > 0, by comparing the integer parts and then the
\* reciprocals of the fractional parts, so that no product is formed
RECURSIVE FractionLe(_, _, _, _)
FractionLe(a, b, c, d) ==
    IF a \div b # c \div d THEN a \div b < c \div d
    ELSE IF a % b = 0 THEN TRUE
    ELSE IF c % d = 0 THEN FALSE
    ELSE FractionLe(d, c % d, b, a % b)

\* x <= y for two fractions whose cross products exceed the integer range
WideLe(x, y) == FractionLe(x[1], x[2], y[1], y[2])

\* combo c carrying this payload keeps the acceleration floor and the
\* propellant upper bound
Carries(c, payload, prop_max) ==
    /\ WideLe(PropellantFor(c, payload), RInt(prop_max))
    /\ WideLe(WetFor(c, payload), HeaviestWet(c))

\* one of the two constraints holds with equality at this payload
Tight(c, payload, prop_max) ==
    \/ PropellantFor(c, payload) = RInt(prop_max)
    \/ WetFor(c, payload) = HeaviestWet(c)

PayloadSteps == {<<1, 1>>, <<1000, 1>>}

LowerTargets ==
    {a \in {Args.accel_target_g,
            RMul(Args.accel_target_g, <<1, 2>>),
            <<1, 1000>>} :
        RLt(RZero, a) /\ RLe(a, Args.accel_target_g)}

\* the same call with the acceleration target a
SearchAt(a) ==
    mission_feasibility_search(Args.combos_df, Args.dv_target_kps, a, Args.accel_type,
                               Args.payload_min, Args.payload_max,
                               Args.prop_min, Args.prop_max)

\* C30: the feasible set shrinks as the acceleration target rises: with the
\* combos, the delta-v target, the regime, the payload and the propellant
\* bounds fixed, every combo returned for a target a2 is returned for every
\* target a1 with 0 < a1 <= a2, with the same payload and propellant and an
\* Additional Possible Payload at least as large
C30_ShrinksWithAccel ==
    Returned =>
        \A a1 \in LowerTargets :
            /\ ~SearchAt(a1).raised
            /\ \A r \in RowIndices :
                  \E s \in 1..Len(SearchAt(a1).rows) :
                      LET high == feas_df.rows[r]
                          low  == SearchAt(a1).rows[s]
                      IN  /\ low.Drive = high.Drive
                          /\ low.PowerPlant = high.PowerPlant
                          /\ low.PayloadMass = high.PayloadMass
                          /\ low.PropellantMass = high.PropellantMass
                          /\ RLe(high.AdditionalPossiblePayload,
                                 low.AdditionalPossiblePayload)

\* a call that returns a row, while half its target returns more rows, and
\* more room for payload on the row they share
C30_Witness ==
    /\ Returned
    /\ Len(feas_df.rows) > 0
    /\ LET half == SearchAt(RMul(Args.accel_target_g, <<1, 2>>))
       IN  /\ ~half.raised
           /\ Len(half.rows) > Len(feas_df.rows)
           /\ \E s \in 1..Len(half.rows) :
                 /\ half.rows[s].Drive = feas_df.rows[1].Drive
                 /\ half.rows[s].PowerPlant = feas_df.rows[1].PowerPlant
                 /\ RLt(feas_df.rows[1].AdditionalPossiblePayload,
                        half.rows[s].AdditionalPossiblePayload)

\* row k of the table is listed as dominated by a row that is not obsolete
LiveDominator(rows, k) ==
    \E j \in Indices(rows) :
        /\ j # k
        /\ InSeq(rows[j].Name, rows[k].DominatedBy)
        /\ ~rows[j].Obsolete

\* every obsolete row of the table has a dominator that is not obsolete
ObsoleteCovered(rows) ==
    \A k \in Indices(rows) : rows[k].Obsolete => LiveDominator(rows, k)

\* the same for the annotated combos, whose dominators are listed as drive
\* and plant
CombosCovered ==
    \A k \in Indices(combos_df.rows) :
        combos_df.rows[k].ComboObsolete =>
            \E j \in Indices(combos_df.rows) :
                /\ j # k
                /\ InSeq(<<combos_df.rows[j].Drive, combos_df.rows[j].PowerPlant>>,
                         combos_df.rows[k].ComboDominatedBy)
                /\ ~combos_df.rows[j].ComboObsolete

\* C28 as stated: under every setting of care_backup and ignore_intraclass
\* every obsolete drive, reactor and combo has a dominator that is not
\* obsolete
C28_EverySetting ==
    /\ DrivesAnnotated => ObsoleteCovered(drive_feat.rows)
    /\ PlantsAnnotated => ObsoleteCovered(pp_feat.rows)
    /\ (Done /\ ~combos_df.is_none) => CombosCovered

\* C28: dropping obsolete records loses nothing undominated: in the output of
\* annotate_drive_obsolescence with ignore_intraclass off (care_backup on or
\* off), of annotate_pp_obsolescence and of annotate_combo_obsolescence,
\* every record flagged obsolete has at least one dominator that is itself
\* not flagged obsolete
C28_LiveDominator ==
    /\ (DrivesAnnotated /\ ~ignore_intraclass) => ObsoleteCovered(drive_feat.rows)
    /\ PlantsAnnotated => ObsoleteCovered(pp_feat.rows)
    /\ (Done /\ ~combos_df.is_none) => CombosCovered

\* three drives in a chain, ignore_intraclass off: the middle one is obsolete
\* and dominates the last, which keeps the first as a dominator
C28_Witness ==
    /\ DrivesAnnotated
    /\ ~ignore_intraclass
    /\ \E i, j, k \in DriveIndices :
          /\ ~drive_feat.rows[i].Obsolete
          /\ drive_feat.rows[j].Obsolete
          /\ drive_feat.rows[k].Obsolete
          /\ InSeq(drive_feat.rows[i].Name, drive_feat.rows[j].DominatedBy)
          /\ InSeq(drive_feat.rows[j].Name, drive_feat.rows[k].DominatedBy)
          /\ InSeq(drive_feat.rows[i].Name, drive_feat.rows[k].DominatedBy)

Graph == project_graph.nodes

ProjectIds == {Graph[k].pid : k \in DOMAIN Graph}

\* the prerequisites of pid that are projects of the graph
PrereqsOf(pid) ==
    {p \in ProjectIds :
        \E k \in DOMAIN Graph : Graph[k].pid = pid /\ InSeq(p, Graph[k].prereqs)}

\* S together with every transitive prerequisite of its members
RECURSIVE WithPrereqs(_)
WithPrereqs(S) ==
    LET more == S \cup UNION {PrereqsOf(pid) : pid \in S}
    IN  IF more = S THEN S ELSE WithPrereqs(more)

AcyclicGraph == \A pid \in ProjectIds : pid \notin WithPrereqs(PrereqsOf(pid))

NoAlternatives == \A k \in DOMAIN Graph : Graph[k].alt_prereqs = <<>>

\* the research costs of the projects in S, each once
RECURSIVE CostOfAll(_)
CostOfAll(S) ==
    IF S = {} THEN 0
    ELSE LET pid == CHOOSE x \in S : TRUE
         IN  NodeOf(Graph, pid).cost + CostOfAll(S \ {pid})

\* two prerequisites of pid share a transitive prerequisite, or one is a
\* transitive prerequisite of the other
SharedPrereq(pid) ==
    \E p, q \in PrereqsOf(pid) :
        p # q /\ WithPrereqs({p}) \cap WithPrereqs({q}) # {}

\* C24: for each project of an acyclic graph without alternative
\* prerequisites, compute_total_project_costs returns the sum of the research
\* costs of the project and of every distinct transitive prerequisite, each
\* counted exactly once
C24_EachCountedOnce ==
    (project_graph.loaded /\ AcyclicGraph /\ NoAlternatives) =>
        \A pid \in ProjectIds :
            /\ pid \in DOMAIN project_total_costs
            /\ project_total_costs[pid] = CostOfAll(WithPrereqs({pid}))

\* an acyclic graph without alternatives in which A requires B, C and D and
\* both B and C require D: the total of A holds the cost of D three times
C24_Witness ==
    /\ project_graph.loaded
    /\ AcyclicGraph
    /\ NoAlternatives
    /\ PrereqsOf("A") = {"B", "C", "D"}
    /\ PrereqsOf("B") = {"D"}
    /\ PrereqsOf("C") = {"D"}
    /\ PrereqsOf("D") = {}
    /\ project_total_costs["A"] = NodeOf(Graph, "A").cost + NodeOf(Graph, "B").cost
                                   + NodeOf(Graph, "C").cost
                                   + 3 * NodeOf(Graph, "D").cost

\* what holds: the total is exact for every project none of whose
\* prerequisites, direct or transitive, is reached along two paths
C24_ExactWithoutSharing ==
    (project_graph.loaded /\ AcyclicGraph /\ NoAlternatives) =>
        \A pid \in ProjectIds :
            (\A p \in WithPrereqs({pid}) : ~SharedPrereq(p)) =>
                project_total_costs[pid] = CostOfAll(WithPrereqs({pid}))

\* the row of the template that gives project pid its node: the last one
TemplateOf(pid) ==
    project_graph.project_raw[
        CHOOSE k \in DOMAIN project_graph.project_raw :
            /\ project_graph.project_raw[k].dataName = pid
            /\ \A j \in DOMAIN project_graph.project_raw :
                  project_graph.project_raw[j].dataName = pid => j <= k]

\* the entries of a list of the template that name something
Named(values) == SelectSeq(values, LAMBDA v : v # "")

\* the project has alternative prerequisites
HasAlternatives(pid) == Named(TemplateOf(pid).altPrereqs) # <<>>

\* the first prerequisite of the template's list, as a set: empty when the
\* list is
FirstOfTemplate(pid) ==
    IF Named(TemplateOf(pid).prereqs) = <<>> THEN {}
    ELSE {Named(TemplateOf(pid).prereqs)[1]}

OthersOfTemplate(pid) ==
    NonEmptyValues(TemplateOf(pid).prereqs) \ FirstOfTemplate(pid)

\* already reachable, or not a project of the graph
Satisfied(pr) == pr \in reachable_call.completed_projects \/ pr \notin ProjectIds

\* the rule of the template for a project with alternatives
TemplateRule(pid) ==
    /\ \A pre \in OthersOfTemplate(pid) : Satisfied(pre)
    /\ \E opt \in FirstOfTemplate(pid) \cup NonEmptyValues(TemplateOf(pid).altPrereqs) :
          Satisfied(opt)

\* the same rule read off the graph
GraphRule(pid) ==
    LET node == NodeOf(Graph, pid)
    IN  /\ \A k \in DOMAIN node.prereqs : k > 1 => Satisfied(node.prereqs[k])
        /\ \/ node.prereqs # <<>> /\ Satisfied(node.prereqs[1])
           \/ \E k \in DOMAIN node.alt_prereqs : Satisfied(node.alt_prereqs[k])

\* one pass of compute_reachable_projects has run
OnePass == reachable_call.called /\ reachable_call.max_steps = 1

\* C27: alternative prerequisites replace only the first prerequisite of the
\* template's prereqs list: one pass of compute_reachable_projects makes a
\* project with alternatives reachable exactly when every prerequisite of the
\* template other than the first is satisfied and at least one of the first
\* and the alternatives is satisfied, and build_project_graph keeps the
\* template's first prerequisite first
C27_FirstOfTemplate ==
    /\ project_graph.loaded =>
          \A pid \in ProjectIds :
              FirstOfTemplate(pid) # {} =>
                  NodeOf(Graph, pid).prereqs[1] \in FirstOfTemplate(pid)
    /\ OnePass =>
          \A pid \in ProjectIds \ reachable_call.completed_projects :
              HasAlternatives(pid) =>
                  (pid \in reachable_call.reachable_projects <=> TemplateRule(pid))

\* A lists B, C with the alternative D; the graph lists C first; C and D
\* are completed: by the template A is reachable, the pass leaves it out
C27_Witness ==
    /\ OnePass
    /\ Named(TemplateOf("A").prereqs) = <<"B", "C">>
    /\ NonEmptyValues(TemplateOf("A").altPrereqs) = {"D"}
    /\ NodeOf(Graph, "A").prereqs = <<"C", "B">>
    /\ reachable_call.completed_projects = {"C", "D"}
    /\ TemplateRule("A")
    /\ "A" \notin reachable_call.reachable_projects

\* what holds: the pass follows the rule for the first prerequisite of the
\* graph's list, whichever it is
C27_FirstOfGraph ==
    OnePass =>
        \A pid \in ProjectIds \ reachable_call.completed_projects :
            HasAlternatives(pid) =>
                (pid \in reachable_call.reachable_projects <=> GraphRule(pid))

\* no name twice, and every name one of the catalog
CleanList(list, catalog) ==
    /\ \A i, j \in DOMAIN list : list[i] = list[j] => i = j
    /\ \A i \in DOMAIN list : \E k \in DOMAIN catalog : catalog[k] = list[i]

\* C29: starting with nothing unlocked, after any sequence of Add, Unlock
\* ALL, Clear, Remove and profile uploads the unlocked drive-family list and
\* the unlocked reactor list hold no name twice and only names of the loaded
\* catalogs
C29_UnlockListsClean ==
    /\ CleanList(session_state.unlocked_drive_families, all_drive_families)
    /\ CleanList(session_state.unlocked_pp, all_pp_names)

\* the profile with repeated, unknown and non-string entries has been
\* applied, and a reactor has been added after it
C29_Witness ==
    /\ uploaded_profile = 2
    /\ session_state.last_uploaded_profile_hash = md5_hexdigest(FileAt(2))
    /\ sidebar_message.event = "add"
    /\ session_state.unlocked_drive_families = <<"Torch", "Resistojet">>
    /\ session_state.unlocked_pp = <<"p2">>

\* the file the uploader holds during the run that a step stands for
StepFile == FileAt(uploaded_profile')

\* that file carries bytes whose MD5 is the hash the session has stored
HashStored ==
    /\ StepFile.present
    /\ StepFile.bytes_len > 0
    /\ md5_hexdigest(StepFile) = session_state.last_uploaded_profile_hash

UnlockEvents == {"add", "unlock all", "clear", "remove"}

\* the run leaves the settings to the user: nothing changes but what the
\* clicked widget changes
SettingsKept ==
    /\ session_state'.ref_payload_tons = session_state.ref_payload_tons
    /\ session_state'.care_backup =
          IF sidebar_message'.event = "care_backup" THEN ~session_state.care_backup
          ELSE session_state.care_backup
    /\ IF sidebar_message'.event \in UnlockEvents
       THEN \/ session_state'.unlocked_pp = session_state.unlocked_pp
            \/ session_state'.unlocked_drive_families
                  = session_state.unlocked_drive_families
       ELSE /\ session_state'.unlocked_pp = session_state.unlocked_pp
            /\ session_state'.unlocked_drive_families
                  = session_state.unlocked_drive_families

HashKept ==
    session_state'.last_uploaded_profile_hash = session_state.last_uploaded_profile_hash

\* the file passes the size limit, is JSON and passes validation
Accepted(file) ==
    /\ file.present
    /\ 0 < file.bytes_len
    /\ file.bytes_len <= size_limit_bytes
    /\ file.parsed.ok
    /\ file.parsed.value.t = "dict"

ProtectedStep ==
    /\ HashStored => (sidebar_message'.outcome # "applied" /\ SettingsKept /\ HashKept)
    /\ ~HashKept =>
          /\ Accepted(StepFile)
          /\ sidebar_message'.outcome = "applied"
          /\ session_state'.last_uploaded_profile_hash = md5_hexdigest(StepFile)
    /\ (StepFile.present /\ StepFile.bytes_len > 0 /\ ~Accepted(StepFile)) =>
          (sidebar_message'.outcome # "applied" /\ SettingsKept /\ HashKept)

\* C23: profile upload protection: in every rerun, an uploaded profile whose
\* MD5 equals last_uploaded_profile_hash is not applied again, so the
\* settings changed since are not overwritten; last_uploaded_profile_hash
\* changes only in a run that has sanitized and applied the uploaded file,
\* and then to that file's MD5; an upload that is too large, not valid JSON
\* or fails validation changes neither the settings nor the stored hash
C23_UploadProtection == [][ProtectedStep]_vars

\* the clean profile (care_backup off, payload 5000 t) has been applied and
\* is still in the uploader; the user has switched care_backup on again and
\* unlocked a second drive family, and both have survived the rerun
C23_Witness ==
    /\ uploaded_profile = 1
    /\ session_state.last_uploaded_profile_hash = md5_hexdigest(FileAt(1))
    /\ session_state.ref_payload_tons = 5000
    /\ session_state.care_backup
    /\ session_state.unlocked_drive_families = <<"Torch", "Resistojet">>
    /\ sidebar_message.outcome = "none"

====
